---- MODULE Spec2Model ----
(***************************************************************************)
(* A state-machine model of the discv5 service loop (src/src/service.rs):  *)
(* the single task that owns active_requests, active_nodes_responses, the  *)
(* query pool, the IP votes and (through a lock) the routing table.  The   *)
(* pre-refactor Discv5::add_enr (src/src/discv5.rs) is the one operation   *)
(* that writes the routing table from outside the loop.                    *)
(*                                                                         *)
(* The k-buckets table, the query pool, the IP vote and the RPC envelope   *)
(* are crates of the repository whose code is not part of src/; they are   *)
(* modelled from their description in the specification (sections 4.1 to   *)
(* 4.4 and 6).                                                             *)
(*                                                                         *)
(* Every handler is written as an operator from a service state (a record  *)
(* with one field per state variable) to the service state it leaves, so   *)
(* that a handler can call another one as the code does; an action binds   *)
(* the record to the variables.                                            *)
(***************************************************************************)
EXTENDS Integers, Sequences, FiniteSets, TLC

VARIABLES
    kbuckets,               \* Service::kbuckets, the routing table
    queries,                \* Service::queries, the query pool
    next_query,             \* the pool's next fresh QueryId
    active_requests,        \* Service::active_requests, RequestId -> ActiveRequest
    next_id,                \* the next request id (rand::random(), taken as fresh)
    active_nodes_responses, \* Service::active_nodes_responses, NodeId -> NodesResponse
    ip_votes,               \* Service::ip_votes
    local_enr,              \* Service::local_enr
    ban_list,               \* PERMIT_BAN_LIST, the banned node addresses
    event_stream,           \* Service::event_stream and the state of its receiver
    callbacks,              \* the one-shot reply channels handed in by the users
    sessions,               \* handler side: the nodes Established was delivered for
    fragments,              \* handler side: per request in flight, the number of
                            \* NODES fragments passed on in answer to it
    running,                \* the service loop has not returned
    config,                 \* Service::config
    observe,                \* which outputs of a step the model keeps in out
    limits,                 \* how many requests and queries one behaviour has
    out                     \* what the last step of the loop sent and called

vars == << kbuckets, queries, next_query, active_requests, next_id,
           active_nodes_responses, ip_votes, local_enr, ban_list, event_stream,
           callbacks, sessions, fragments, running, config, observe, limits, out >>

-----------------------------------------------------------------------------
(* Bounds of the model *)

\* Requests the service sends in one behaviour (request ids 1..MaxReq).
MaxReq == 3
\* ENR sequence numbers range over 1..MaxSeq.
MaxSeq == 2
\* Queries admitted in one behaviour.
MaxQueries == 1
\* Records carried by one NODES fragment.
MaxNodes == 2
\* One-shot reply channels of FindEnr requests in one behaviour.
MaxCallbacks == 1
\* Capacity of a bucket (16 in the table, scaled down).
BucketSize == 1

\* The node ids: the local node and its peers.
LocalId == 0
Peers == (1..6) \cup (16..31)
NodeIds == {LocalId} \cup Peers

\* The UDP sockets peers report for the local node.
Sockets == {"sockA", "sockB"}

-----------------------------------------------------------------------------
(* Program constants *)

\* The fragments of one NODES exchange the service accepts.
MaxNodesResponses == 5
\* NodesResponse::default().count
DefaultCount == 1
MAX_PACKET_SIZE == 1280
\* The bytes of a regular message around the ENRs of a NODES response.
PacketOverhead == 92
\* The largest encoded ENR.
MaxEnrSize == 300
\* Discv5Config::enr_peer_update_min, scaled down to its smallest legal value.
EnrPeerUpdateMin == 2
\* Discv5Config::query_parallelism.
QueryParallelism == 3
\* The limit of same-/24 entries of a bucket.
IpLimit == 2

-----------------------------------------------------------------------------
(* Generic helpers *)

Min(a, b) == IF a < b THEN a ELSE b

\* Option<T> is a sequence of length at most one.
None == << >>
Some(x) == << x >>
IsSome(o) == Len(o) > 0
Unwrap(o) == o[1]

RECURSIVE SeqFilterIdx(_, _, _)
\* The indices i of s, in order from i, for which keep[i].
SeqFilterIdx(s, keep, i) ==
    IF i > Len(s) THEN << >>
    ELSE IF keep[i] THEN << s[i] >> \o SeqFilterIdx(s, keep, i + 1)
    ELSE SeqFilterIdx(s, keep, i + 1)

Range(s) == { s[i] : i \in 1..Len(s) }

RemoveAt(s, i) == SubSeq(s, 1, i - 1) \o SubSeq(s, i + 1, Len(s))
InsertAt(s, i, x) == SubSeq(s, 1, i - 1) \o << x >> \o SubSeq(s, i, Len(s))

MapPut(f, k, v) == [ x \in DOMAIN f \cup {k} |-> IF x = k THEN v ELSE f[x] ]
MapRemove(f, k) == [ x \in DOMAIN f \ {k} |-> f[x] ]
EmptyMap == [ x \in {} |-> 0 ]

-----------------------------------------------------------------------------
(* Node ids, keys and distances *)

RECURSIVE Xor(_, _)
Xor(a, b) ==
    IF a = 0 THEN b
    ELSE IF b = 0 THEN a
    ELSE (((a % 2) + (b % 2)) % 2) + 2 * Xor(a \div 2, b \div 2)

RECURSIVE BitLen(_)
BitLen(n) == IF n = 0 THEN 0 ELSE 1 + BitLen(n \div 2)

\* Key::log2_distance: None (written 0) for equal keys, else the position of
\* the highest bit in which the keys differ, counted from 1.
log2_distance(a, b) == BitLen(Xor(a, b))

\* The distances of the table's buckets.
Distances == { log2_distance(LocalId, p) : p \in Peers }

\* An ENR: the node id it is signed by and its sequence number.
Enr(id, seq) == [ id |-> id, seq |-> seq ]
Enrs == { Enr(id, seq) : id \in NodeIds, seq \in 1..MaxSeq }

\* The /24 prefix of the IPv4 address a record carries: the first record of
\* a node has the node's own /24, its later records the one /24 all nodes
\* have moved to.
Subnet(enr) == IF enr.seq = 1 THEN enr.id ELSE 0

\* Enr::encode().len(): the first record of a node has the largest size, and
\* each later record of it is three bytes shorter.
EncodedSize(enr) == MaxEnrSize - 3 * (enr.seq - 1)

-----------------------------------------------------------------------------
(* The k-buckets table (specification, sections 3 and 4.1) *)

\* A bucket entry is [enr, status]; nodes are kept least recently updated
\* first, the Disconnected ones before the Connected ones.  The pending slot
\* holds at most one candidate, [enr, status, expired].
EmptyBucket == [ nodes |-> << >>, pending |-> << >> ]
EmptyTable == [ buckets |-> [ d \in Distances |-> EmptyBucket ],
                applied_pending |-> << >> ]

NodeEntry(enr, status) == [ enr |-> enr, status |-> status ]

\* The position of the node with this id in a bucket's list, 0 when absent.
PositionOf(nodes, id) ==
    IF \E i \in 1..Len(nodes) : nodes[i].enr.id = id
    THEN CHOOSE i \in 1..Len(nodes) : nodes[i].enr.id = id
    ELSE 0

\* The position of the first Connected node, Len + 1 when there is none.
FirstConnectedPos(nodes) ==
    IF \E i \in 1..Len(nodes) : nodes[i].status = "Connected"
    THEN CHOOSE i \in 1..Len(nodes) :
            /\ nodes[i].status = "Connected"
            /\ \A j \in 1..(i - 1) : nodes[j].status # "Connected"
    ELSE Len(nodes) + 1

\* A Connected node becomes the most recently connected one, a Disconnected
\* node the most recently disconnected one.
PlaceNode(nodes, e) ==
    IF e.status = "Connected" THEN Append(nodes, e)
    ELSE InsertAt(nodes, FirstConnectedPos(nodes), e)

\* KBucket::insert -> Inserted | Full | Pending{disconnected}
BucketInsert(b, enr, status) ==
    IF Len(b.nodes) < limits.bucket_size
    THEN [ bucket |-> [ b EXCEPT !.nodes = PlaceNode(@, NodeEntry(enr, status)) ],
           result |-> "Inserted", disconnected |-> None ]
    ELSE IF status = "Connected" /\ b.nodes[1].status = "Disconnected"
                                 /\ b.pending = << >>
    THEN [ bucket |-> [ b EXCEPT !.pending =
                          << [ enr |-> enr, status |-> status, expired |-> FALSE,
                               nominee |-> b.nodes[1].enr.id ] >> ],
           result |-> "Pending", disconnected |-> Some(b.nodes[1].enr.id) ]
    ELSE [ bucket |-> b, result |-> "Full", disconnected |-> None ]

\* KBucket::apply_pending: a pending candidate whose deadline has passed
\* replaces the node nominated for eviction if that node is still
\* Disconnected, and is dropped otherwise.
ApplyPending(b) ==
    IF b.pending = << >> \/ ~b.pending[1].expired
    THEN [ bucket |-> b, applied |-> None ]
    ELSE LET p == b.pending[1]
             e == NodeEntry(p.enr, p.status)
         IN  IF Len(b.nodes) < limits.bucket_size
             THEN [ bucket |-> [ nodes |-> PlaceNode(b.nodes, e), pending |-> << >> ],
                    applied |-> Some([ inserted |-> p.enr.id, evicted |-> None ]) ]
             ELSE IF \/ PositionOf(b.nodes, p.nominee) = 0
                     \/ b.nodes[PositionOf(b.nodes, p.nominee)].status = "Connected"
             THEN [ bucket |-> [ b EXCEPT !.pending = << >> ], applied |-> None ]
             ELSE [ bucket |-> [ nodes |-> PlaceNode(RemoveAt(b.nodes,
                                                PositionOf(b.nodes, p.nominee)), e),
                                 pending |-> << >> ],
                    applied |-> Some([ inserted |-> p.enr.id,
                                       evicted |-> Some(p.nominee) ]) ]

\* KBucketsTable::entry: applies the bucket's pending entry, then looks the
\* key up.  kind is Present | Pending | Absent | SelfEntry.
TableEntry(kb, id) ==
    LET d == log2_distance(LocalId, id)
        Found(kb2, b, pos) ==
            IF pos # 0
            THEN [ kb |-> kb2, kind |-> "Present",
                   enr |-> Some(b.nodes[pos].enr), status |-> b.nodes[pos].status ]
            ELSE IF b.pending # << >> /\ b.pending[1].enr.id = id
            THEN [ kb |-> kb2, kind |-> "Pending",
                   enr |-> Some(b.pending[1].enr), status |-> b.pending[1].status ]
            ELSE [ kb |-> kb2, kind |-> "Absent", enr |-> None, status |-> "None" ]
        Applied(ap) ==
            Found([ buckets |-> [ kb.buckets EXCEPT ![d] = ap.bucket ],
                    applied_pending |-> kb.applied_pending \o ap.applied ],
                  ap.bucket, PositionOf(ap.bucket.nodes, id))
    IN  IF d \notin Distances
        THEN [ kb |-> kb, kind |-> "SelfEntry", enr |-> None, status |-> "None" ]
        ELSE Applied(ApplyPending(kb.buckets[d]))

\* *entry.value() = enr, on a Present or Pending entry.
EntrySetValue(kb, id, enr) ==
    LET d == log2_distance(LocalId, id)
        b == kb.buckets[d]
        pos == PositionOf(b.nodes, id)
    IN  IF pos # 0
        THEN [ kb EXCEPT !.buckets[d].nodes[pos].enr = enr ]
        ELSE [ kb EXCEPT !.buckets[d].pending[1].enr = enr ]

\* entry.update(status), on a Present or Pending entry.  The promotion of
\* the pending candidate is cancelled when its nominee becomes Connected.
EntryUpdate(kb, id, status) ==
    LET d == log2_distance(LocalId, id)
        b == kb.buckets[d]
        pos == PositionOf(b.nodes, id)
        cancelled == /\ status = "Connected"
                     /\ b.pending # << >>
                     /\ b.pending[1].nominee = id
    IN  IF pos # 0
        THEN [ kb EXCEPT !.buckets[d].nodes =
                 PlaceNode(RemoveAt(b.nodes, pos), NodeEntry(b.nodes[pos].enr, status)),
                         !.buckets[d].pending = IF cancelled THEN << >> ELSE @ ]
        ELSE [ kb EXCEPT !.buckets[d].pending[1].status = status ]

\* entry.insert(enr, status), on an Absent entry.
EntryInsert(kb, enr, status) ==
    LET d == log2_distance(LocalId, enr.id)
        r == BucketInsert(kb.buckets[d], enr, status)
    IN  [ kb |-> [ kb EXCEPT !.buckets[d] = r.bucket ],
          result |-> r.result, disconnected |-> r.disconnected ]

\* KBucketsTable::remove: the node leaves its bucket if it is in it.
TableRemove(kb, id) ==
    LET d == log2_distance(LocalId, id)
        pos == IF d \in Distances THEN PositionOf(kb.buckets[d].nodes, id) ELSE 0
    IN  IF pos = 0 THEN kb
        ELSE [ kb EXCEPT !.buckets[d].nodes = RemoveAt(@, pos) ]

\* ip_limiter: the record may be inserted if fewer than limit of the others
\* share its /24.
ip_limiter(enr, others, limit) ==
    Cardinality({ i \in 1..Len(others) : Subnet(others[i]) = Subnet(enr) }) < limit

\* KBucketsTable::check: the preflight of the IP quota against the records of
\* the key's bucket (other than the key's own).
TableCheck(kb, id, enr) ==
    LET d == log2_distance(LocalId, id) IN
    IF d \notin Distances THEN TRUE
    ELSE LET nodes == kb.buckets[d].nodes
             keep  == [ i \in 1..Len(nodes) |-> nodes[i].enr.id # id ]
             kept  == SeqFilterIdx(nodes, keep, 1)
         IN  ip_limiter(enr, [ i \in 1..Len(kept) |-> kept[i].enr ], limits.ip_limit)

\* KBucketsTable::take_applied_pending: promotes what has expired, then
\* yields the oldest promotion not yet reported.
RECURSIVE ApplyAllPending(_, _)
ApplyAllPending(kb, ds) ==
    IF ds = {} THEN kb
    ELSE LET d  == CHOOSE x \in ds : \A y \in ds : x <= y
             ap == ApplyPending(kb.buckets[d])
         IN  ApplyAllPending(
                 [ buckets |-> [ kb.buckets EXCEPT ![d] = ap.bucket ],
                   applied_pending |-> kb.applied_pending \o ap.applied ],
                 ds \ {d})

\* KBucketsTable::iter: every entry of the table, bucket by bucket.
RECURSIVE TableIter(_, _)
TableIter(kb, ds) ==
    IF ds = {} THEN << >>
    ELSE LET d == CHOOSE x \in ds : \A y \in ds : x <= y
         IN  kb.buckets[d].nodes \o TableIter(kb, ds \ {d})

\* The node ids the table holds: in a bucket, or in a pending slot.
PresentIds(kb) == { e.enr.id : e \in UNION { Range(kb.buckets[d].nodes) : d \in Distances } }
PendingIds(kb) == { e.enr.id : e \in UNION { Range(kb.buckets[d].pending) : d \in Distances } }

-----------------------------------------------------------------------------
(* A query and the query pool (specification, sections 4.2 and 4.3) *)

\* The distances a FindNode query asks one peer for, one per iteration.
QueryIterations == 3
\* The largest log2 distance of two keys.
MaxDistance == 256
\* The result size of a FindNode query, K.
NumResults == 16

\* A peer of a query is [state, iteration]; state is Unknown (not a candidate),
\* NotContacted, Waiting, Unresponsive, Succeeded or Failed.
QueryPeer(state, iteration) == [ state |-> state, iteration |-> iteration ]

\* closest_keys(target): the keys of the table by ascending XOR distance to
\* the target; the query keeps them as its NotContacted candidates.
NewQuery(target, known_closest_peers, callback, num_results, parallelism) ==
    [ target |-> target,
      parallelism |-> parallelism,
      untrusted_enrs |-> << >>,
      callback |-> callback,
      num_results |-> num_results,
      peers |-> [ n \in NodeIds |->
                    IF n \in known_closest_peers THEN QueryPeer("NotContacted", 1)
                    ELSE QueryPeer("Unknown", 1) ] ]

\* A predicate query is a query with the predicate, the set of the records
\* that satisfy it, and the peers whose record has passed it.
NewPredicateQuery(target, known_closest_peers, callback, num_results, parallelism, predicate) ==
    [ predicate |-> predicate, passing |-> known_closest_peers ]
        @@ NewQuery(target, known_closest_peers, callback, num_results, parallelism)

\* The peers a query may return: all, or those that have passed the predicate.
Passing(q) == IF "passing" \in DOMAIN q THEN q.passing ELSE NodeIds

PeersIn(q, states) == { n \in NodeIds : q.peers[n].state \in states }

\* The peer of a set closest to the target by XOR distance.
Closest(target, ids) ==
    CHOOSE n \in ids : \A m \in ids : Xor(n, target) <= Xor(m, target)

RECURSIVE SortByDistance(_, _)
SortByDistance(target, ids) ==
    IF ids = {} THEN << >>
    ELSE LET n == Closest(target, ids)
         IN  << n >> \o SortByDistance(target, ids \ {n})

\* Query::on_success: the peer has answered; what it returned becomes a
\* candidate unless the query knows it already.
OnSuccess(q, source, enrs) ==
    LET Judged(r) ==
            IF "passing" \notin DOMAIN q THEN r
            ELSE [ r EXCEPT !.passing = @ \cup
                     { n \in NodeIds :
                         /\ q.peers[n].state = "Unknown" /\ n # LocalId
                         /\ \E i \in 1..Len(enrs) :
                               /\ enrs[i].id = n
                               /\ enrs[i] \in q.predicate
                               /\ \A j \in 1..(i - 1) : enrs[j].id # n } ]
    IN
    IF q.peers[source].state \notin {"Waiting", "Unresponsive"} THEN q
    ELSE Judged([ q EXCEPT !.peers =
             [ n \in NodeIds |->
                 IF n = source THEN QueryPeer("Succeeded", @[n].iteration)
                 ELSE IF @[n].state = "Unknown" /\ n # LocalId
                         /\ \E i \in 1..Len(enrs) : enrs[i].id = n
                 THEN QueryPeer("NotContacted", 1)
                 ELSE @[n] ] ])

\* Query::on_failure: a peer in flight is asked again at its next iteration
\* while it has one left, and has failed otherwise.
OnFailure(q, node) ==
    IF q.peers[node].state = "Waiting" /\ q.peers[node].iteration < QueryIterations
    THEN [ q EXCEPT !.peers[node] = QueryPeer("NotContacted", @.iteration + 1) ]
    ELSE IF q.peers[node].state \in {"Waiting", "Unresponsive"}
    THEN [ q EXCEPT !.peers[node].state = "Failed" ]
    ELSE q

\* The K closest candidates that have not failed are all Succeeded.
ClosestSucceeded(q) ==
    LET live   == PeersIn(q, {"NotContacted", "Waiting", "Unresponsive", "Succeeded"})
        sorted == SortByDistance(q.target, live)
    IN  /\ Len(sorted) >= q.num_results
        /\ \A i \in 1..q.num_results : q.peers[sorted[i]].state = "Succeeded"

\* The query has nothing left to do.
QueryFinished(q) ==
    \/ PeersIn(q, {"NotContacted", "Waiting"}) = {}
    \/ ClosestSucceeded(q)

\* The query may contact one more peer.
QueryCanContact(q) ==
    /\ ~QueryFinished(q)
    /\ Cardinality(PeersIn(q, {"Waiting"})) < q.parallelism
    /\ PeersIn(q, {"NotContacted"}) # {}

\* Query::into_result: the K closest Succeeded peers, closest first.
ClosestPeers(q) ==
    LET sorted == SortByDistance(q.target, PeersIn(q, {"Succeeded"}) \cap Passing(q))
    IN  SubSeq(sorted, 1, Min(Len(sorted), q.num_results))

RECURSIVE IterationDistances(_, _, _)
\* findnode_log2distance: the distance itself, then the distances next to it,
\* above before below, as far as they are log2 distances.
IterationDistances(d, difference, n) ==
    IF n <= 0 THEN << >>
    ELSE LET up   == IF d + difference <= MaxDistance THEN << d + difference >> ELSE << >>
             down == IF d - difference > 0 THEN << d - difference >> ELSE << >>
             here == SubSeq(up \o down, 1, Min(n, Len(up \o down)))
         IN  IF up \o down = << >> THEN << >>
             ELSE here \o IterationDistances(d, difference + 1, n - Len(here))

\* QueryInfo::rpc_request: the request for a peer at its iteration; an error
\* (None) when the peer is the target itself.
rpc_request(target, peer, iteration) ==
    LET d == log2_distance(peer, target) IN
    IF d = 0 THEN None
    ELSE LET ds == << d >> \o IterationDistances(d, 1, iteration - 1)
         IN  IF Len(ds) < iteration THEN None
             ELSE Some([ kind |-> "FindNode", arg |-> ds[iteration] ])

-----------------------------------------------------------------------------
(* The IP vote (specification, section 4.4) *)

\* IpVote::insert: one vote per node id, the most recent one.
VoteInsert(votes, node_id, socket) == MapPut(votes, node_id, socket)

VoteCount(votes, socket) == Cardinality({ n \in DOMAIN votes : votes[n] = socket })

\* IpVote::majority: the socket with the most votes, if it has the minimum.
VoteMajority(votes) ==
    LET best == { x \in Sockets :
                    /\ VoteCount(votes, x) >= EnrPeerUpdateMin
                    /\ \A y \in Sockets : VoteCount(votes, y) <= VoteCount(votes, x) }
    IN  IF best = {} THEN None ELSE Some(CHOOSE x \in best : TRUE)

-----------------------------------------------------------------------------
(* RPC envelopes and contacts *)

Ping(enr_seq) == [ kind |-> "Ping", arg |-> enr_seq ]
FindNode(distance) == [ kind |-> "FindNode", arg |-> distance ]

Nodes(total, nodes) == [ kind |-> "Nodes", total |-> total, nodes |-> nodes ]
Pong(enr_seq, socket) == [ kind |-> "Pong", enr_seq |-> enr_seq, socket |-> socket ]

\* Response::match_request: the body kinds pair.
match_request(body, request_body) ==
    \/ body.kind = "Pong" /\ request_body.kind = "Ping"
    \/ body.kind = "Nodes" /\ request_body.kind = "FindNode"

\* NodeContact::Enr(enr) and NodeContact::Raw{node_address}.
ContactEnr(enr) == [ node_id |-> enr.id, enr |-> Some(enr) ]
ContactRaw(node_id) == [ node_id |-> node_id, enr |-> None ]

\* NodeAddress: a node id at a socket.  A record's own socket is "udp".
NodeAddress(node_id, socket_addr) == [ node_id |-> node_id, socket_addr |-> socket_addr ]
ContactAddress(contact) == NodeAddress(contact.node_id, "udp")

ActiveRequest(contact, request_body, query_id, callback) ==
    [ contact |-> contact, request_body |-> request_body,
      query_id |-> query_id, callback |-> callback ]

\* NodesResponse { count, received_nodes }
NodesResponse(count, received_nodes) ==
    [ count |-> count, received_nodes |-> received_nodes ]

-----------------------------------------------------------------------------
(* The service state as one record, and what a step puts out *)

EmptyOut == [ sent |-> << >>, events |-> << >>, discovered |-> << >> ]

State ==
    [ kbuckets |-> kbuckets, queries |-> queries, next_query |-> next_query,
      active_requests |-> active_requests, next_id |-> next_id,
      active_nodes_responses |-> active_nodes_responses, ip_votes |-> ip_votes,
      local_enr |-> local_enr, ban_list |-> ban_list, event_stream |-> event_stream,
      callbacks |-> callbacks, sessions |-> sessions, fragments |-> fragments,
      running |-> running,
      config |-> config, out |-> EmptyOut ]

\* handler_send.send(msg)
SendToHandler(s, msg) == [ s EXCEPT !.out.sent = Append(@, msg) ]

\* callback.send(value) on a one-shot channel: the sender is used up.
CallbackSend(s, kind, cb, value) ==
    [ s EXCEPT !.callbacks[kind][cb] =
        [ state |-> "sent", value |-> Some(value), sends |-> @.sends + 1 ] ]

\* A one-shot sender that goes out of scope unused.
CallbackDrop(s, kind, cb) ==
    [ s EXCEPT !.callbacks[kind][cb].state = "dropped" ]

\* send_event, except that a full channel loses the stream as a closed one does.
send_event_full_unregisters(s, event) ==
    IF s.event_stream.stream = "None" THEN s
    ELSE IF s.event_stream.rx \in {"closed", "full"}
    THEN [ s EXCEPT !.event_stream.stream = "None" ]
    ELSE [ s EXCEPT !.out.events = Append(@, event) ]

\* Service::send_event
send_event(s, event) ==
    IF s.event_stream.stream = "None" THEN s
    ELSE IF s.event_stream.rx = "closed"
    THEN [ s EXCEPT !.event_stream.stream = "None" ]
    ELSE IF s.event_stream.rx = "full" THEN s
    ELSE [ s EXCEPT !.out.events = Append(@, event) ]

\* Service::send_rpc_request
send_rpc_request(s, active_request) ==
    LET id == s.next_id IN
    SendToHandler(
        [ s EXCEPT !.active_requests = MapPut(@, id, active_request),
                   !.next_id = id + 1 ],
        [ type |-> "Request", contact |-> active_request.contact, id |-> id,
          body |-> active_request.request_body ])

\* Service::send_ping
send_ping(s, enr) ==
    send_rpc_request(s, ActiveRequest(ContactEnr(enr), Ping(s.local_enr.seq), None, None))

\* Service::request_enr
request_enr(s, contact, callback) ==
    send_rpc_request(s, ActiveRequest(contact, FindNode(0), None, callback))

\* The first record with this node id among the untrusted ENRs of the
\* queries, in the pool's order.
UntrustedEnr(qs, node_id) ==
    LET has(q) == \E i \in 1..Len(qs[q].untrusted_enrs) : qs[q].untrusted_enrs[i].id = node_id
        with == { q \in DOMAIN qs : has(q) }
    IN  IF with = {} THEN None
        ELSE LET q == CHOOSE x \in with : \A y \in with : x <= y
                 u == qs[q].untrusted_enrs
                 i == CHOOSE j \in 1..Len(u) :
                        /\ u[j].id = node_id
                        /\ \A k \in 1..(j - 1) : u[k].id # node_id
             IN  Some(u[i])

\* Service::find_enr: [s, enr]; looking the key up applies its bucket's
\* pending entry.
find_enr(s, node_id) ==
    LET Looked(entry) ==
            [ s   |-> [ s EXCEPT !.kbuckets = entry.kb ],
              enr |-> IF entry.kind = "Present" THEN entry.enr
                      ELSE UntrustedEnr(s.queries, node_id) ]
    IN  Looked(TableEntry(s.kbuckets, node_id))

\* (self.config.table_filter)(enr)
table_filter(s, enr) == enr \in s.config.table_filter

\* A discovered record that makes the node it is of a connected one.
DiscoveredOneConnects(s, enr) ==
    LET te == TableEntry(s.kbuckets, enr.id) IN
    IF te.kind \in {"Present", "Pending"}
    THEN [ s EXCEPT !.kbuckets =
             EntryUpdate(EntrySetValue(te.kb, enr.id, enr), enr.id, "Connected") ]
    ELSE [ s EXCEPT !.kbuckets = te.kb ]

\* discovered, first loop, one record, that leaves the stored record alone.
DiscoveredOneKeepsStored(s, enr) ==
    LET Told(s1) ==
            IF ~table_filter(s1, enr) THEN s1
            ELSE IF s1.config.ip_limit /\ ~TableCheck(s1.kbuckets, enr.id, enr) THEN s1
            ELSE [ s1 EXCEPT !.kbuckets = TableEntry(s1.kbuckets, enr.id).kb ]
    IN  Told(send_event(s, [ type |-> "Discovered", enr |-> enr ]))

\* discovered, first loop, one record: the Discovered event, and the update
\* of a stored record that is older.
DiscoveredOne(s, enr) ==
    LET Stored(s1, entry) ==
            IF entry.kind \in {"Present", "Pending"} /\ Unwrap(entry.enr).seq < enr.seq
            THEN [ s1 EXCEPT !.kbuckets = EntrySetValue(entry.kb, enr.id, enr) ]
            ELSE [ s1 EXCEPT !.kbuckets = entry.kb ]
        Told(s1) ==
            IF ~table_filter(s1, enr) THEN s1
            ELSE IF s1.config.ip_limit /\ ~TableCheck(s1.kbuckets, enr.id, enr) THEN s1
            ELSE Stored(s1, TableEntry(s1.kbuckets, enr.id))
    IN  Told(send_event(s, [ type |-> "Discovered", enr |-> enr ]))

RECURSIVE DiscoveredTable(_, _)
DiscoveredTable(s, enrs) ==
    IF enrs = << >> THEN s
    ELSE DiscoveredTable(DiscoveredOne(s, Head(enrs)), Tail(enrs))

RECURSIVE PushUntrusted(_, _)
\* discovered, second loop: records the query has no record of yet.
PushUntrusted(untrusted, enrs) ==
    IF enrs = << >> THEN untrusted
    ELSE PushUntrusted(
            IF \E i \in 1..Len(untrusted) : untrusted[i].id = Head(enrs).id
            THEN untrusted ELSE Append(untrusted, Head(enrs)),
            Tail(enrs))

\* discovered without the filter of the records of the local node id.
discovered_with_own(s, source, enrs, query_id) ==
    LET Learnt(query) ==
            OnSuccess([ query EXCEPT !.untrusted_enrs = PushUntrusted(@, enrs) ],
                      source, enrs)
        Stored(s1) ==
            IF IsSome(query_id) /\ Unwrap(query_id) \in DOMAIN s1.queries
            THEN [ s1 EXCEPT !.queries[Unwrap(query_id)] = Learnt(@) ]
            ELSE s1
    IN  Stored(DiscoveredTable(
                  [ s EXCEPT !.out.discovered =
                      Append(@, [ source |-> source, enrs |-> enrs,
                                  query_id |-> query_id ]) ],
                  enrs))

\* Service::discovered
discovered(s, source, enrs, query_id) ==
    LET other == SeqFilterIdx(enrs,
                              [ i \in 1..Len(enrs) |-> enrs[i].id # s.local_enr.id ], 1)
        Learnt(query) ==
            OnSuccess([ query EXCEPT !.untrusted_enrs = PushUntrusted(@, other) ],
                      source, other)
        Stored(s1) ==
            IF IsSome(query_id) /\ Unwrap(query_id) \in DOMAIN s1.queries
            THEN [ s1 EXCEPT !.queries[Unwrap(query_id)] = Learnt(@) ]
            ELSE s1
    IN  Stored(DiscoveredTable(
                  [ s EXCEPT !.out.discovered =
                      Append(@, [ source |-> source, enrs |-> enrs,
                                  query_id |-> query_id ]) ],
                  other))

\* connection_updated that writes the status of a Present entry in its place.
connection_updated_in_place(s, node_id, enr, status) ==
    LET \* Pending { disconnected }: the nominee is pinged if its record is known.
        Probed(f) == IF IsSome(f.enr) THEN send_ping(f.s, Unwrap(f.enr)) ELSE f.s
        Inserted(ins, s1) ==
            IF ins.result = "Inserted"
            THEN send_event(s1, [ type |-> "NodeInserted", node_id |-> node_id,
                                  replaced |-> None ])
            ELSE IF ins.result = "Pending"
            THEN Probed(find_enr(s1, Unwrap(ins.disconnected)))
            ELSE s1
        Insert(ins) == Inserted(ins, [ s EXCEPT !.kbuckets = ins.kb ])
        WithStatus(kb1, entry, new_status) ==
            IF entry.kind = "Present"
            THEN [ kb1 EXCEPT !.buckets[log2_distance(LocalId, node_id)].nodes =
                     [ i \in DOMAIN @ |->
                         IF @[i].enr.id = node_id
                         THEN NodeEntry(@[i].enr, new_status) ELSE @[i] ] ]
            ELSE EntryUpdate(kb1, node_id, new_status)
        Updated(entry, new_status) ==
            IF entry.kind \in {"Present", "Pending"}
            THEN [ s EXCEPT !.kbuckets =
                     WithStatus(IF IsSome(enr)
                                THEN EntrySetValue(entry.kb, node_id, Unwrap(enr))
                                ELSE entry.kb,
                                entry, new_status) ]
            ELSE IF entry.kind = "Absent" /\ new_status = "Connected" /\ IsSome(enr)
            THEN Insert(EntryInsert(entry.kb, Unwrap(enr), new_status))
            ELSE [ s EXCEPT !.kbuckets = entry.kb ]
    IN  IF IsSome(enr) /\ ~table_filter(s, Unwrap(enr)) THEN s
        ELSE Updated(TableEntry(s.kbuckets, node_id),
                     IF IsSome(enr) /\ s.config.ip_limit
                                    /\ ~TableCheck(s.kbuckets, node_id, Unwrap(enr))
                     THEN "Disconnected" ELSE status)

\* Service::connection_updated
connection_updated(s, node_id, enr, status) ==
    LET \* Pending { disconnected }: the nominee is pinged if its record is known.
        Probed(f) == IF IsSome(f.enr) THEN send_ping(f.s, Unwrap(f.enr)) ELSE f.s
        Inserted(ins, s1) ==
            IF ins.result = "Inserted"
            THEN send_event(s1, [ type |-> "NodeInserted", node_id |-> node_id,
                                  replaced |-> None ])
            ELSE IF ins.result = "Pending"
            THEN Probed(find_enr(s1, Unwrap(ins.disconnected)))
            ELSE s1
        Insert(ins) == Inserted(ins, [ s EXCEPT !.kbuckets = ins.kb ])
        WithStatus(kb1, entry, new_status) ==
            IF entry.status # new_status THEN EntryUpdate(kb1, node_id, new_status)
            ELSE kb1
        Updated(entry, new_status) ==
            IF entry.kind \in {"Present", "Pending"}
            THEN [ s EXCEPT !.kbuckets =
                     WithStatus(IF IsSome(enr)
                                THEN EntrySetValue(entry.kb, node_id, Unwrap(enr))
                                ELSE entry.kb,
                                entry, new_status) ]
            ELSE IF entry.kind = "Absent" /\ new_status = "Connected" /\ IsSome(enr)
            THEN Insert(EntryInsert(entry.kb, Unwrap(enr), new_status))
            ELSE [ s EXCEPT !.kbuckets = entry.kb ]
    IN  IF IsSome(enr) /\ ~table_filter(s, Unwrap(enr)) THEN s
        ELSE Updated(TableEntry(s.kbuckets, node_id),
                     IF IsSome(enr) /\ s.config.ip_limit
                                    /\ ~TableCheck(s.kbuckets, node_id, Unwrap(enr))
                     THEN "Disconnected" ELSE status)

\* inject_session_established that pings only a node the table has taken.
inject_session_established_admitted(s, enr) ==
    LET Pinged(s1) ==
            IF TableEntry(s1.kbuckets, enr.id).kind = "Present" THEN send_ping(s1, enr)
            ELSE s1
    IN  Pinged(connection_updated(s, enr.id, Some(enr), "Connected"))

\* Service::inject_session_established
inject_session_established(s, enr) ==
    send_ping(connection_updated(s, enr.id, Some(enr), "Connected"), enr)

\* Service::ping_connected_peers
RECURSIVE PingAll(_, _)
PingAll(s, enrs) ==
    IF enrs = << >> THEN s ELSE PingAll(send_ping(s, Head(enrs)), Tail(enrs))

ConnectedPeers(kb) ==
    LET all  == TableIter(kb, Distances)
        keep == [ i \in 1..Len(all) |-> all[i].status = "Connected" ]
        conn == SeqFilterIdx(all, keep, 1)
    IN  [ i \in 1..Len(conn) |-> conn[i].enr ]

ping_connected_peers(s) == PingAll(s, ConnectedPeers(s.kbuckets))

\* An ActiveRequest that goes out of scope: so does its one-shot sender.
DropActiveRequest(s, active_request) ==
    IF IsSome(active_request.callback)
    THEN CallbackDrop(s, "enr", Unwrap(active_request.callback))
    ELSE s

\* A response whose records are all kept.
RetainAll(peer, nodes, distance_requested) == nodes

\* nodes.retain(..): the records at the requested distance of the peer; for
\* distance 0 the records whose key is the peer's.
RetainDistance(peer, nodes, distance_requested) ==
    SeqFilterIdx(nodes,
                 [ i \in 1..Len(nodes) |->
                     log2_distance(peer, nodes[i].id) = distance_requested ],
                 1)

\* PERMIT_BAN_LIST.write().ban(address)
Ban(s, address) == [ s EXCEPT !.ban_list = @ \cup {address} ]

\* handle_rpc_response, a Nodes body that answers a user's ENR request: the
\* callback is answered with the last record of the response.
NodesForCallback(s, active_request, body) ==
    LET cb == Unwrap(active_request.callback) IN
    IF active_request.request_body.arg # 0 THEN CallbackDrop(s, "enr", cb)
    ELSE CallbackSend(s, "enr", cb,
            IF body.nodes = << >> THEN None ELSE Some(body.nodes[Len(body.nodes)]))

\* The handling of a NODES fragment that hands the accumulated records on
\* with a fragment of total 1.
NodesBodyKeepsAccumulated(s, id, active_request, body) ==
    LET node_id  == active_request.contact.node_id
        distance_requested == active_request.request_body.arg
        nodes    == RetainDistance(node_id, body.nodes, distance_requested)
        s1 == IF distance_requested # 0 /\ Len(nodes) < Len(body.nodes)
              THEN Ban(s, ContactAddress(active_request.contact))
              ELSE s
        current_response ==
              IF node_id \in DOMAIN s1.active_nodes_responses
              THEN s1.active_nodes_responses[node_id]
              ELSE NodesResponse(DefaultCount, << >>)
        s2 == [ s1 EXCEPT !.active_nodes_responses = MapRemove(@, node_id) ]
    IN  IF body.total > 1 /\ current_response.count < MaxNodesResponses
                          /\ current_response.count < body.total
        THEN [ s2 EXCEPT
                 !.active_nodes_responses =
                     MapPut(@, node_id,
                            NodesResponse(current_response.count + 1,
                                          current_response.received_nodes \o nodes)),
                 !.active_requests = MapPut(@, id, active_request) ]
        ELSE IF body.total > 1
        THEN discovered(s2, node_id, current_response.received_nodes \o nodes,
                        active_request.query_id)
        ELSE discovered(s2, node_id, current_response.received_nodes \o nodes,
                        active_request.query_id)

\* handle_rpc_response, a Nodes body: filter, ban, accumulate, discovered.
NodesBody(s, id, active_request, body) ==
    LET node_id  == active_request.contact.node_id
        distance_requested == active_request.request_body.arg
        nodes    == RetainDistance(node_id, body.nodes, distance_requested)
        s1 == IF distance_requested # 0 /\ Len(nodes) < Len(body.nodes)
              THEN Ban(s, ContactAddress(active_request.contact))
              ELSE s
        current_response ==
              IF node_id \in DOMAIN s1.active_nodes_responses
              THEN s1.active_nodes_responses[node_id]
              ELSE NodesResponse(DefaultCount, << >>)
        s2 == [ s1 EXCEPT !.active_nodes_responses = MapRemove(@, node_id) ]
    IN  IF body.total > 1 /\ current_response.count < MaxNodesResponses
                          /\ current_response.count < body.total
        THEN [ s2 EXCEPT
                 !.active_nodes_responses =
                     MapPut(@, node_id,
                            NodesResponse(current_response.count + 1,
                                          current_response.received_nodes \o nodes)),
                 !.active_requests = MapPut(@, id, active_request) ]
        ELSE IF body.total > 1
        THEN discovered(s2, node_id, current_response.received_nodes \o nodes,
                        active_request.query_id)
        ELSE discovered(s2, node_id, nodes, active_request.query_id)

\* The IP vote with the socket of the Pong taken for the majority.
PongVoteUnchecked(s, node_id, socket, enr_write_ok) ==
    IF ~IsSome(s.ip_votes) THEN s
    ELSE LET votes == VoteInsert(Unwrap(s.ip_votes), node_id, socket)
             s1 == [ s EXCEPT !.ip_votes = Some(votes) ]
         IN  IF Some(socket) # s.local_enr.socket
             THEN LET s2 == send_event(s1, [ type |-> "SocketUpdated", socket |-> socket ])
                  IN  IF enr_write_ok
                      THEN ping_connected_peers(
                              [ s2 EXCEPT !.local_enr.socket = Some(socket),
                                          !.local_enr.seq = @ + 1 ])
                      ELSE s2
             ELSE s1

\* The IP vote of a Pong with the re-ping of the connected peers started
\* before the local ENR is written.
PongVotePingsFirst(s, node_id, socket, enr_write_ok) ==
    IF ~IsSome(s.ip_votes) THEN s
    ELSE LET votes == VoteInsert(Unwrap(s.ip_votes), node_id, socket)
             s1 == [ s EXCEPT !.ip_votes = Some(votes) ]
             majority_socket == VoteMajority(votes)
         IN  IF IsSome(majority_socket) /\ majority_socket # s.local_enr.socket
             THEN LET s2 == send_event(s1, [ type |-> "SocketUpdated",
                                            socket |-> Unwrap(majority_socket) ])
                  IN  IF enr_write_ok
                      THEN [ ping_connected_peers(s2)
                               EXCEPT !.local_enr.socket = majority_socket,
                                      !.local_enr.seq = @ + 1 ]
                      ELSE s2
             ELSE s1

\* handle_rpc_response, a Pong body: the IP vote, the ENR refresh, the status.
\* enr_write_ok is the outcome of Enr::set_udp_socket.
PongVote(s, node_id, socket, enr_write_ok) ==
    IF ~IsSome(s.ip_votes) THEN s
    ELSE LET votes == VoteInsert(Unwrap(s.ip_votes), node_id, socket)
             s1 == [ s EXCEPT !.ip_votes = Some(votes) ]
             majority_socket == VoteMajority(votes)
         IN  IF IsSome(majority_socket) /\ majority_socket # s.local_enr.socket
             THEN LET s2 == send_event(s1, [ type |-> "SocketUpdated",
                                            socket |-> Unwrap(majority_socket) ])
                  IN  IF enr_write_ok
                      THEN ping_connected_peers(
                              [ s2 EXCEPT !.local_enr.socket = majority_socket,
                                          !.local_enr.seq = @ + 1 ])
                      ELSE s2
             ELSE s1

PongBody(s, active_request, body, enr_write_ok) ==
    LET node_id == active_request.contact.node_id
        Refreshed(f) ==
            IF Unwrap(f.enr).seq < body.enr_seq
            THEN send_rpc_request(f.s,
                    ActiveRequest(active_request.contact, FindNode(0), None, None))
            ELSE f.s
        Found(f) ==
            IF IsSome(f.enr)
            THEN connection_updated(Refreshed(f), node_id, f.enr, "Connected")
            ELSE f.s
    IN  Found(find_enr(PongVote(s, node_id, body.socket, enr_write_ok), node_id))

\* handle_rpc_response without the comparison of the kinds.
handle_rpc_response_any_kind(s, id, body, enr_write_ok) ==
    IF id \notin DOMAIN s.active_requests THEN s
    ELSE LET active_request == s.active_requests[id]
             s1 == [ s EXCEPT !.active_requests = MapRemove(@, id) ]
         IN  IF body.kind = "Nodes"
             THEN IF IsSome(active_request.callback)
                  THEN NodesForCallback(s1, active_request, body)
                  ELSE NodesBody(s1, id, active_request, body)
             ELSE PongBody(s1, active_request, body, enr_write_ok)

\* Service::handle_rpc_response
handle_rpc_response(s, id, body, enr_write_ok) ==
    IF id \notin DOMAIN s.active_requests THEN s
    ELSE LET active_request == s.active_requests[id]
             s1 == [ s EXCEPT !.active_requests = MapRemove(@, id) ]
         IN  IF ~match_request(body, active_request.request_body)
             THEN DropActiveRequest(s1, active_request)
             ELSE IF body.kind = "Nodes"
             THEN IF IsSome(active_request.callback)
                  THEN NodesForCallback(s1, active_request, body)
                  ELSE NodesBody(s1, id, active_request, body)
             ELSE PongBody(s1, active_request, body, enr_write_ok)

\* rpc_failure, what the query and the accumulator learn of a failed request.
FailureOutcome(s, active_request) ==
    LET node_id  == active_request.contact.node_id
        query_id == active_request.query_id
        fail_query ==
            IF IsSome(query_id) /\ Unwrap(query_id) \in DOMAIN s.queries
            THEN [ s EXCEPT !.queries[Unwrap(query_id)] = OnFailure(@, node_id) ]
            ELSE s
    IN  IF active_request.request_body.kind = "FindNode"
        THEN IF node_id \in DOMAIN s.active_nodes_responses
             THEN LET nodes_response == s.active_nodes_responses[node_id]
                      s1 == [ s EXCEPT !.active_nodes_responses = MapRemove(@, node_id) ]
                  IN  IF nodes_response.received_nodes # << >>
                      THEN discovered(s1, node_id, nodes_response.received_nodes, query_id)
                      ELSE s1
             ELSE fail_query
        ELSE fail_query

\* Service::rpc_failure
rpc_failure(s, id) ==
    IF id \notin DOMAIN s.active_requests THEN s
    ELSE LET active_request == s.active_requests[id]
             s1 == [ s EXCEPT !.active_requests = MapRemove(@, id) ]
         IN  IF IsSome(active_request.callback)
             THEN CallbackSend(s1, "enr", Unwrap(active_request.callback), None)
             ELSE connection_updated(FailureOutcome(s1, active_request),
                                     active_request.contact.node_id, None, "Disconnected")

\* send_nodes_response, the packing loop: [to_send_nodes, total_size].  A
\* record joins the last response while the sizes stay below the budget.
RECURSIVE PackNodes(_, _, _)
PackNodes(nodes, to_send_nodes, total_size) ==
    IF nodes = << >> THEN to_send_nodes
    ELSE LET enr == Head(nodes)
             entry_size == EncodedSize(enr)
             last == Len(to_send_nodes)
         IN  IF entry_size + total_size < MAX_PACKET_SIZE - PacketOverhead
             THEN PackNodes(Tail(nodes),
                            [ to_send_nodes EXCEPT ![last] = Append(@, enr) ],
                            total_size + entry_size)
             ELSE PackNodes(Tail(nodes), Append(to_send_nodes, << enr >>), entry_size)

RECURSIVE SendResponses(_, _, _, _, _)
SendResponses(s, node_address, rpc_id, total, lists) ==
    IF lists = << >> THEN s
    ELSE SendResponses(
            SendToHandler(s, [ type |-> "Response", to |-> node_address, id |-> rpc_id,
                               body |-> Nodes(total, Head(lists)) ]),
            node_address, rpc_id, total, Tail(lists))

\* KBucketsTable::nodes_by_distance
nodes_by_distance(kb, distance) ==
    IF distance \in Distances THEN kb.buckets[distance].nodes ELSE << >>

\* send_nodes_response that leaves the requester's own record in the answer.
send_nodes_response_unfiltered(s, node_address, rpc_id, distance) ==
    LET entries == nodes_by_distance(s.kbuckets, distance)
        nodes == [ i \in 1..Len(entries) |-> entries[i].enr ]
    IN  IF nodes = << >>
        THEN SendToHandler(s, [ type |-> "Response", to |-> node_address, id |-> rpc_id,
                                body |-> Nodes(1, << >>) ])
        ELSE LET lists == PackNodes(nodes, << << >> >>, 0)
             IN  SendResponses(s, node_address, rpc_id, Len(lists), lists)

\* Service::send_nodes_response
send_nodes_response(s, node_address, rpc_id, distance) ==
    LET entries == nodes_by_distance(s.kbuckets, distance)
        keep  == [ i \in 1..Len(entries) |-> entries[i].enr.id # node_address.node_id ]
        kept  == SeqFilterIdx(entries, keep, 1)
        nodes == [ i \in 1..Len(kept) |-> kept[i].enr ]
    IN  IF nodes = << >>
        THEN SendToHandler(s, [ type |-> "Response", to |-> node_address, id |-> rpc_id,
                                body |-> Nodes(1, << >>) ])
        ELSE LET lists == PackNodes(nodes, << << >> >>, 0)
             IN  SendResponses(s, node_address, rpc_id, Len(lists), lists)

\* The Ping handler that answers a node the table does not hold as well.
PingRequestAnswersAll(s, node_address, id, enr_seq) ==
    LET te == TableEntry(s.kbuckets, node_address.node_id)
        s1 == [ s EXCEPT !.kbuckets = te.kb ]
        s2 == IF te.kind \in {"Present", "Pending"} /\ Unwrap(te.enr).seq < enr_seq
              THEN request_enr(s1, ContactEnr(Unwrap(te.enr)), None)
              ELSE s1
    IN  SendToHandler(s2, [ type |-> "Response", to |-> node_address, id |-> id,
                            body |-> Pong(s2.local_enr.seq, node_address.socket_addr) ])

\* handle_rpc_request, a Ping: nothing for a node the table does not hold;
\* else an ENR request if the peer's record is stale, and the Pong.
PingRequest(s, node_address, id, enr_seq) ==
    LET te == TableEntry(s.kbuckets, node_address.node_id)
        s1 == [ s EXCEPT !.kbuckets = te.kb ]
    IN  IF te.kind \notin {"Present", "Pending"} THEN s1
        ELSE LET s2 == IF Unwrap(te.enr).seq < enr_seq
                       THEN request_enr(s1, ContactEnr(Unwrap(te.enr)), None)
                       ELSE s1
             IN  SendToHandler(s2, [ type |-> "Response", to |-> node_address, id |-> id,
                                     body |-> Pong(s2.local_enr.seq,
                                                   node_address.socket_addr) ])

\* Service::handle_rpc_request
handle_rpc_request(s, node_address, id, body) ==
    IF body.kind = "FindNode"
    THEN IF body.arg = 0
         THEN SendToHandler(s, [ type |-> "Response", to |-> node_address, id |-> id,
                                 body |-> Nodes(1, << Enr(s.local_enr.id, s.local_enr.seq) >>) ])
         ELSE send_nodes_response(s, node_address, id, body.arg)
    ELSE IF body.kind = "Ping"
    THEN PingRequest(s, node_address, id, body.arg)
    ELSE s

\* Service::send_rpc_query
send_rpc_query(s, query_id, return_peer, request_body) ==
    LET f == find_enr(s, return_peer) IN
    IF IsSome(f.enr)
    THEN send_rpc_request(f.s,
            ActiveRequest(ContactEnr(Unwrap(f.enr)), request_body, Some(query_id), None))
    ELSE f.s

\* query_event_poll, QueryPoolState::Waiting(Some(..)): the pool has moved the
\* closest NotContacted peer to Waiting.
QueryWaiting(s, query_id) ==
    LET q    == s.queries[query_id]
        peer == Closest(q.target, PeersIn(q, {"NotContacted"}))
        s1   == [ s EXCEPT !.queries[query_id].peers[peer].state = "Waiting" ]
        request_body == rpc_request(q.target, peer, q.peers[peer].iteration)
    IN  IF IsSome(request_body)
        THEN send_rpc_query(s1, query_id, peer, Unwrap(request_body))
        ELSE [ s1 EXCEPT !.queries[query_id] = OnFailure(@, peer) ]

\* Vec::swap_remove
SwapRemove(v, i) ==
    IF i = Len(v) THEN SubSeq(v, 1, Len(v) - 1)
    ELSE SubSeq([ v EXCEPT ![i] = v[Len(v)] ], 1, Len(v) - 1)

RECURSIVE FoundEnrs(_, _, _, _)
\* Service::start, the loop over result.closest_peers: [s, found_enrs].
FoundEnrs(s, untrusted_enrs, closest_peers, found_enrs) ==
    IF closest_peers = << >> THEN [ s |-> s, found_enrs |-> found_enrs ]
    ELSE LET node_id == Head(closest_peers)
             position == IF \E i \in 1..Len(untrusted_enrs) : untrusted_enrs[i].id = node_id
                         THEN CHOOSE i \in 1..Len(untrusted_enrs) :
                                /\ untrusted_enrs[i].id = node_id
                                /\ \A j \in 1..(i - 1) : untrusted_enrs[j].id # node_id
                         ELSE 0
         IN  IF position # 0
             THEN FoundEnrs(s, SwapRemove(untrusted_enrs, position), Tail(closest_peers),
                            Append(found_enrs, untrusted_enrs[position]))
             ELSE LET f == find_enr(s, node_id)
                  IN  FoundEnrs(f.s, untrusted_enrs, Tail(closest_peers),
                                found_enrs \o f.enr)

\* A query that answers with all the records it has learnt.
QueryDoneUntrusted(s, query_id) ==
    CallbackSend([ s EXCEPT !.queries = MapRemove(@, query_id) ], "query",
                 s.queries[query_id].callback, s.queries[query_id].untrusted_enrs)

\* A query that leaves the pool without an answer to its callback.
QueryForgotten(s, query_id) ==
    [ s EXCEPT !.queries = MapRemove(@, query_id) ]

\* Service::start, QueryEvent::Finished(query) | QueryEvent::TimedOut(query):
\* the query has left the pool; its result goes to the callback.
QueryDone(s, query_id) ==
    LET q  == s.queries[query_id]
        s1 == [ s EXCEPT !.queries = MapRemove(@, query_id) ]
        r  == FoundEnrs(s1, q.untrusted_enrs, ClosestPeers(q), << >>)
    IN  CallbackSend(r.s, "query", q.callback, r.found_enrs)

\* KBucketsTable::closest_keys
closest_keys(kb) == PresentIds(kb)

\* A query configured with the default parallelism, not the service's.
start_findnode_query_default(s, target_node, callback) ==
    [ s EXCEPT !.queries = MapPut(@, s.next_query,
                              NewQuery(target_node, closest_keys(s.kbuckets),
                                       callback, limits.num_results,
                                       QueryParallelism)),
               !.next_query = @ + 1 ]

\* Service::start_findnode_query
start_findnode_query(s, target_node, callback) ==
    [ s EXCEPT !.queries = MapPut(@, s.next_query,
                              NewQuery(target_node, closest_keys(s.kbuckets),
                                       callback, limits.num_results,
                                       s.config.query_parallelism)),
               !.next_query = @ + 1 ]

\* KBucketsTable::closest_keys_predicate: the keys whose record satisfies
\* the predicate.
closest_keys_predicate(kb, predicate) ==
    { e.enr.id : e \in { x \in Range(TableIter(kb, Distances)) : x.enr \in predicate } }

\* Service::start_predicate_query
start_predicate_query(s, target_node, num_nodes, predicate, callback) ==
    [ s EXCEPT !.queries = MapPut(@, s.next_query,
                              NewPredicateQuery(target_node,
                                  closest_keys_predicate(s.kbuckets, predicate),
                                  callback, num_nodes, s.config.query_parallelism,
                                  predicate)),
               !.next_query = @ + 1 ]

\* A record added by hand that enters the table as a connected node.
add_enr_connected(s, enr) ==
    connection_updated(s, enr.id, Some(enr), "Connected")

\* add_enr that does not consult the table filter.
add_enr_unfiltered(s, enr) ==
    IF FALSE THEN s
    ELSE LET Probed(f) == IF IsSome(f.enr) THEN send_ping(f.s, Unwrap(f.enr)) ELSE f.s
             Inserted(ins, s1) ==
                 IF ins.result = "Inserted"
                 THEN [ s1 EXCEPT !.out.events =
                          Append(@, [ type |-> "EnrAdded", enr |-> enr ]) ]
                 ELSE IF ins.result = "Pending"
                 THEN Probed(find_enr(s1, Unwrap(ins.disconnected)))
                 ELSE s1
             Insert(ins) == Inserted(ins, [ s EXCEPT !.kbuckets = ins.kb ])
             Added(entry, ip_limit_ban) ==
                 IF entry.kind \in {"Present", "Pending"}
                 THEN [ s EXCEPT !.kbuckets = EntrySetValue(entry.kb, enr.id, enr) ]
                 ELSE IF entry.kind = "Absent" /\ ~ip_limit_ban
                 THEN Insert(EntryInsert(entry.kb, enr, "Disconnected"))
                 ELSE [ s EXCEPT !.kbuckets = entry.kb ]
         IN  Added(TableEntry(s.kbuckets, enr.id),
                   s.config.ip_limit /\ ~TableCheck(s.kbuckets, enr.id, enr))

\* Discv5::add_enr
add_enr(s, enr) ==
    IF ~table_filter(s, enr) THEN s
    ELSE LET Probed(f) == IF IsSome(f.enr) THEN send_ping(f.s, Unwrap(f.enr)) ELSE f.s
             Inserted(ins, s1) ==
                 IF ins.result = "Inserted"
                 THEN [ s1 EXCEPT !.out.events =
                          Append(@, [ type |-> "EnrAdded", enr |-> enr ]) ]
                 ELSE IF ins.result = "Pending"
                 THEN Probed(find_enr(s1, Unwrap(ins.disconnected)))
                 ELSE s1
             Insert(ins) == Inserted(ins, [ s EXCEPT !.kbuckets = ins.kb ])
             Added(entry, ip_limit_ban) ==
                 IF entry.kind \in {"Present", "Pending"}
                 THEN [ s EXCEPT !.kbuckets = EntrySetValue(entry.kb, enr.id, enr) ]
                 ELSE IF entry.kind = "Absent" /\ ~ip_limit_ban
                 THEN Insert(EntryInsert(entry.kb, enr, "Disconnected"))
                 ELSE [ s EXCEPT !.kbuckets = entry.kb ]
         IN  Added(TableEntry(s.kbuckets, enr.id),
                   s.config.ip_limit /\ ~TableCheck(s.kbuckets, enr.id, enr))

\* The maintenance poll that reports a promotion and leaves it in the queue.
bucket_maintenance_keeps(s) ==
    LET kb == ApplyAllPending(s.kbuckets, Distances)
        entry == Head(kb.applied_pending)
    IN  send_event([ s EXCEPT !.kbuckets.buckets = kb.buckets,
                              !.kbuckets.applied_pending = kb.applied_pending ],
                   [ type |-> "NodeInserted", node_id |-> entry.inserted,
                     replaced |-> entry.evicted ])

\* bucket_maintenance_poll and the event it returns
bucket_maintenance(s) ==
    LET kb == ApplyAllPending(s.kbuckets, Distances)
        entry == Head(kb.applied_pending)
    IN  send_event([ s EXCEPT !.kbuckets.buckets = kb.buckets,
                              !.kbuckets.applied_pending = Tail(kb.applied_pending) ],
                   [ type |-> "NodeInserted", node_id |-> entry.inserted,
                     replaced |-> entry.evicted ])

-----------------------------------------------------------------------------
(* The state machine *)

\* The bodies of the requests peers send.
RequestBodies ==
    { Ping(n) : n \in 1..MaxSeq } \cup { FindNode(d) : d \in {0} \cup Distances }
        \cup { [ kind |-> "Talk", arg |-> 0 ] }

RECURSIVE SeqsUpTo(_, _)
\* The sequences over S of length at most n.
SeqsUpTo(S, n) ==
    IF n = 0 THEN { << >> }
    ELSE LET shorter == SeqsUpTo(S, n - 1)
         IN  shorter \cup { Append(x, e) : x \in shorter, e \in S }

\* The NODES bodies with these totals and these records.
NodesBodies(totals, enrs) ==
    { Nodes(t, ns) : t \in totals, ns \in SeqsUpTo(enrs, MaxNodes) }

\* The PONG bodies reporting these sockets.
PongBodies(sockets) == { Pong(n, x) : n \in 1..MaxSeq, x \in sockets }

\* The socket a peer's packet comes from: its record's, or another one.
PeerSockets == {"udp", "nat"}

DefaultConfig ==
    [ enr_update |-> TRUE, ip_limit |-> FALSE, table_filter |-> Enrs,
      query_parallelism |-> QueryParallelism ]

OpenChannel == [ state |-> "open", value |-> None, sends |-> 0 ]

\* The state after Service::spawn, under a configuration.
InitWith(cfg, obs, lim) ==
    /\ kbuckets = EmptyTable
    /\ queries = EmptyMap
    /\ next_query = 1
    /\ active_requests = EmptyMap
    /\ next_id = 1
    /\ active_nodes_responses = EmptyMap
    /\ config = cfg
    /\ ip_votes = IF cfg.enr_update THEN Some(EmptyMap) ELSE None
    /\ local_enr = [ id |-> LocalId, seq |-> 1, socket |-> Some("sockA") ]
    /\ ban_list = {}
    /\ event_stream = [ stream |-> "None", rx |-> "open" ]
    /\ callbacks = [ enr |-> EmptyMap, query |-> EmptyMap ]
    /\ sessions = {}
    /\ fragments = EmptyMap
    /\ running = TRUE
    /\ observe = obs
    /\ limits = lim
    /\ out = EmptyOut

\* A step leaves the service in state t; the counters stay within the bounds.
Commit(t) ==
    /\ t.next_id <= limits.requests + 1
    /\ t.local_enr.seq <= MaxSeq
    /\ active_requests' = t.active_requests
    /\ next_id' = t.next_id
    /\ active_nodes_responses' = t.active_nodes_responses
    /\ out' = [ sent |-> IF "sent" \in observe THEN t.out.sent ELSE << >>,
                events |-> IF "events" \in observe THEN t.out.events ELSE << >>,
                discovered |-> IF "calls" \in observe THEN t.out.discovered ELSE << >> ]
    /\ ban_list' = t.ban_list
    /\ kbuckets' = t.kbuckets
    /\ queries' = t.queries
    /\ next_query' = t.next_query
    /\ ip_votes' = t.ip_votes
    /\ local_enr' = t.local_enr
    /\ event_stream' = t.event_stream
    /\ callbacks' = t.callbacks
    /\ sessions' = t.sessions
    /\ fragments' = [ id \in DOMAIN t.fragments \cap DOMAIN t.active_requests |->
                         t.fragments[id] ]
    /\ running' = t.running
    /\ config' = t.config
    /\ observe' = observe
    /\ limits' = limits

\* ServiceRequest::StartQuery(QueryKind::FindNode { target_node }, callback)
StartQuery(target_node) ==
    /\ running
    /\ next_query <= limits.queries
    /\ Commit(start_findnode_query(
                [ State EXCEPT !.callbacks.query = MapPut(@, next_query, OpenChannel) ],
                target_node, next_query))

\* ServiceRequest::StartQuery(QueryKind::Predicate { .. }, callback)
StartPredicateQuery(target_node, target_peer_no, predicate) ==
    /\ running
    /\ next_query <= limits.queries
    /\ Commit(start_predicate_query(
                [ State EXCEPT !.callbacks.query = MapPut(@, next_query, OpenChannel) ],
                target_node, target_peer_no, predicate, next_query))

\* ServiceRequest::FindEnr(node_contact, callback)
FindEnr(contact) ==
    /\ running
    /\ Cardinality(DOMAIN callbacks.enr) < MaxCallbacks
    /\ LET cb == Cardinality(DOMAIN callbacks.enr) + 1
       IN  Commit(request_enr([ State EXCEPT !.callbacks.enr = MapPut(@, cb, OpenChannel) ],
                              contact, Some(cb)))

\* ServiceRequest::RequestEventStream(callback)
RequestEventStream ==
    /\ running
    /\ Commit([ State EXCEPT !.event_stream = [ stream |-> "Some", rx |-> "open" ] ])

\* The receiver of the event stream, in the caller's task: it has taken the
\* events (open), lags behind a full channel (full), or is dropped (closed).
StreamReceiver(rx) ==
    /\ event_stream.stream = "Some"
    /\ event_stream.rx # "closed"
    /\ event_stream.rx # rx
    /\ Commit([ State EXCEPT !.event_stream.rx = rx ])

\* HandlerResponse::Established(enr)
Established(enr) ==
    /\ running
    /\ Commit(inject_session_established([ State EXCEPT !.sessions = @ \cup {enr.id} ], enr))

\* HandlerResponse::Request(node_address, request)
Request(node_address, id, body) ==
    /\ running
    /\ node_address.node_id \in sessions
    /\ Commit(handle_rpc_request(State, node_address, id, body))

\* The handler passes a fragment on: a NODES body in answer to a FindNode.
Passed(s, id, body) ==
    IF body.kind = "Nodes" /\ match_request(body, s.active_requests[id].request_body)
    THEN [ s EXCEPT !.fragments =
             MapPut(@, id, 1 + (IF id \in DOMAIN @ THEN @[id] ELSE 0)) ]
    ELSE s

\* HandlerResponse::Response(_, response): the handler passes on what the
\* node a request went to has answered over its session.
Response(id, body, enr_write_ok) ==
    /\ running
    /\ id \in DOMAIN active_requests
    /\ active_requests[id].contact.node_id \in sessions
    /\ Commit(handle_rpc_response(Passed(State, id, body), id, body, enr_write_ok))

\* HandlerResponse::Response(_, response) with an id no request is waiting under
LateResponse(id, body) ==
    /\ running
    /\ id < next_id
    /\ id \notin DOMAIN active_requests
    /\ Commit(handle_rpc_response(State, id, body, TRUE))

\* HandlerResponse::WhoAreYou(whoareyou_ref)
WhoAreYou(node_id) ==
    /\ running
    /\ LET f == find_enr(State, node_id)
       IN  Commit(SendToHandler(f.s, [ type |-> "WhoAreYou", node_id |-> node_id,
                                       enr |-> f.enr ]))

\* HandlerResponse::RequestFailed(request_id, error)
RequestFailed(id) ==
    /\ running
    /\ id < next_id
    /\ Commit(rpc_failure(State, id))

\* event = Service::bucket_maintenance_poll(&self.kbuckets)
BucketMaintenance ==
    /\ running
    /\ ApplyAllPending(kbuckets, Distances).applied_pending # << >>
    /\ Commit(bucket_maintenance(State))

\* query_event_poll: QueryEvent::Waiting
QueryPollWaiting(query_id) ==
    /\ running
    /\ query_id \in DOMAIN queries
    /\ QueryCanContact(queries[query_id])
    /\ Commit(QueryWaiting(State, query_id))

\* query_event_poll: QueryEvent::Finished
QueryPollFinished(query_id) ==
    /\ running
    /\ query_id \in DOMAIN queries
    /\ QueryFinished(queries[query_id])
    /\ Commit(QueryDone(State, query_id))

\* A pool that looks at the deadline of a query only when no request of the
\* query is in flight.
QueryPollTimedOutIdle(query_id) ==
    /\ running
    /\ query_id \in DOMAIN queries
    /\ PeersIn(queries[query_id], {"Waiting"}) = {}
    /\ \E t \in { QueryDone(State, query_id) } : Commit(t)

\* query_event_poll: QueryEvent::TimedOut, query_timeout after the query's start
QueryPollTimedOut(query_id) ==
    /\ running
    /\ query_id \in DOMAIN queries
    /\ \E t \in { QueryDone(State, query_id) } : Commit(t)

\* The pool notices that a Waiting peer's deadline has passed.
QueryPeerTimeout(query_id, peer) ==
    /\ running
    /\ query_id \in DOMAIN queries
    /\ queries[query_id].peers[peer].state = "Waiting"
    /\ Commit([ State EXCEPT !.queries[query_id].peers[peer].state = "Unresponsive" ])

\* _ = self.ping_heartbeat.next()
PingHeartbeat ==
    /\ running
    /\ ConnectedPeers(kbuckets) # << >>
    /\ Commit(ping_connected_peers(State))

\* The exit branch without its return.
ExitAndGoOn ==
    /\ running
    /\ Commit(SendToHandler(State, [ type |-> "Exit" ]))

\* _ = &mut self.exit
Exit ==
    /\ running
    /\ Commit(SendToHandler([ State EXCEPT !.running = FALSE ], [ type |-> "Exit" ]))

\* Discv5::add_enr(enr), from the application's task
AddEnr(enr) ==
    /\ enr \in Enrs
    /\ Commit(add_enr(State, enr))

\* Discv5::remove_node(node_id), from the application's task
RemoveNode(node_id) ==
    /\ \E e \in Range(TableIter(kbuckets, Distances)) : e.enr.id = node_id
    /\ Commit([ State EXCEPT !.kbuckets = TableRemove(@, node_id) ])

\* The deadline of a bucket's pending entry passes.
PendingExpires(d) ==
    /\ kbuckets.buckets[d].pending # << >>
    /\ ~kbuckets.buckets[d].pending[1].expired
    /\ Commit([ State EXCEPT !.kbuckets.buckets[d].pending[1].expired = TRUE ])

-----------------------------------------------------------------------------
(* Spec: requests, responses, queries and the routing table.  Two peers of  *)
(* one bucket take part with their first records; peers answer with the     *)
(* newest records (sequence number MaxSeq) of these peers, in fragments that   *)
(* declare a total of 1 or 2, and report the socket the local record has.   *)

SpecPeers == {2, 3}
FirstEnrs == { Enr(n, 1) : n \in SpecPeers }
FreshEnrs == { Enr(n, MaxSeq) : n \in SpecPeers }

\* What the peers answer.
SpecResponses == NodesBodies({1, 2}, FreshEnrs) \cup PongBodies({"sockA"})

Init ==
    InitWith(DefaultConfig, {"calls"},
             [ requests |-> MaxReq, queries |-> MaxQueries,
               bucket_size |-> BucketSize, ip_limit |-> IpLimit,
               num_results |-> NumResults ])

Next ==
    \/ \E target_node \in {3} : StartQuery(target_node)
    \/ \E contact \in { ContactEnr(Enr(2, 1)), ContactRaw(3) } : FindEnr(contact)
    \/ \E enr \in FirstEnrs : Established(enr)
    \/ \E n \in SpecPeers, body \in { Ping(1), Ping(MaxSeq), FindNode(2) } :
          Request(NodeAddress(n, "udp"), 1, body)
    \/ \E id \in 1..MaxReq, body \in SpecResponses : Response(id, body, TRUE)
    \/ \E id \in 1..MaxReq : LateResponse(id, Nodes(1, << >>))
    \/ \E n \in SpecPeers : WhoAreYou(n)
    \/ \E id \in 1..MaxReq : RequestFailed(id)
    \/ BucketMaintenance
    \/ \E q \in 1..MaxQueries : QueryPollWaiting(q)
    \/ \E q \in 1..MaxQueries : QueryPollFinished(q)
    \/ \E q \in 1..MaxQueries : QueryPollTimedOut(q)
    \/ \E q \in 1..MaxQueries, n \in SpecPeers : QueryPeerTimeout(q, n)
    \/ PingHeartbeat
    \/ \E enr \in FirstEnrs : AddEnr(enr)
    \/ \E d \in Distances : PendingExpires(d)

Spec == Init /\ [][Next]_vars

-----------------------------------------------------------------------------
(* Requests in flight and their one-shot callbacks *)

\* The step takes the request with this id out of active_requests.
Removed(id) == id \in DOMAIN active_requests /\ id \notin DOMAIN active_requests'

\* C1: the entry of a request leaves active_requests only in a step that
\* handles RequestFailed for its id or a Response for its id whose body kind
\* matches the request.
C1_RemovedOnlyByFailureOrMatchingResponse ==
    [][\A id \in DOMAIN active_requests :
          Removed(id) =>
             \/ RequestFailed(id)
             \/ \E body \in SpecResponses :
                   /\ match_request(body, active_requests[id].request_body)
                   /\ Response(id, body, TRUE)]_vars

\* C3: in the step that takes a FindEnr request out of active_requests (a
\* Response or a RequestFailed for its id) its callback receives a value, and
\* no callback ever receives a second one.
C3_FindEnrResolvedOnce ==
    [][/\ \A id \in DOMAIN active_requests :
             (Removed(id) /\ IsSome(active_requests[id].callback)) =>
                callbacks'.enr[Unwrap(active_requests[id].callback)].state = "sent"
       /\ \A cb \in DOMAIN callbacks'.enr : callbacks'.enr[cb].sends <= 1]_vars

\* C4: a record a FindEnr callback receives is signed by the node the
\* request went to.
C4_FindEnrRecordIsOfContact ==
    [][\A id \in DOMAIN active_requests :
          (Removed(id) /\ IsSome(active_requests[id].callback)) =>
             LET reply == callbacks'.enr[Unwrap(active_requests[id].callback)]
             IN  (reply.state = "sent" /\ IsSome(Unwrap(reply.value))) =>
                    Unwrap(Unwrap(reply.value)).id = active_requests[id].contact.node_id]_vars

-----------------------------------------------------------------------------
(* Queries and their reply *)

\* The node ids of a sequence of records.
IdsOf(enrs) == [ i \in 1..Len(enrs) |-> enrs[i].id ]

\* The record a finished query returns for a node: the first one the query
\* has learnt, else the one the table holds, else one a query still in the
\* pool has learnt.
ResultRecord(q, kb, qs, n) ==
    IF \E i \in 1..Len(q.untrusted_enrs) : q.untrusted_enrs[i].id = n
    THEN Some(q.untrusted_enrs[CHOOSE i \in 1..Len(q.untrusted_enrs) :
                                 /\ q.untrusted_enrs[i].id = n
                                 /\ \A j \in 1..(i - 1) : q.untrusted_enrs[j].id # n])
    ELSE LET d == log2_distance(LocalId, n)
             pos == IF d \in Distances THEN PositionOf(kb.buckets[d].nodes, n) ELSE 0
         IN  IF pos # 0 THEN Some(kb.buckets[d].nodes[pos].enr)
             ELSE UntrustedEnr(qs, n)

\* The reply channel of every query has been sent on exactly when the query
\* has left the pool, and never twice.
QueryReplies(qs, cbs) ==
    \A cb \in DOMAIN cbs.query :
        /\ cbs.query[cb].sends <= 1
        /\ cbs.query[cb].state \in {"open", "sent"}
        /\ cbs.query[cb].state = "sent" <=> ~\E q \in DOMAIN qs : qs[q].callback = cb

\* C2: the reply of a query is sent exactly once, in the step in which the
\* query leaves the pool, which is the pool reporting it Finished or TimedOut;
\* in both cases the value is the records of the query's closest succeeded
\* peers, closest first.
C2_QueryRepliedOnceOnLeaving ==
    [][/\ QueryReplies(queries', callbacks')
       /\ \A q \in DOMAIN queries :
             q \notin DOMAIN queries' =>
                LET reply == callbacks'.query[queries[q].callback]
                    closest_peers == ClosestPeers(queries[q])
                    records == [ i \in 1..Len(closest_peers) |->
                                   ResultRecord(queries[q], kbuckets', queries',
                                                closest_peers[i]) ]
                    known == SeqFilterIdx(records,
                                 [ i \in 1..Len(records) |-> IsSome(records[i]) ], 1)
                IN  /\ QueryPollFinished(q) \/ QueryPollTimedOut(q)
                    /\ callbacks.query[queries[q].callback].state = "open"
                    /\ reply.value = Some([ i \in 1..Len(known) |-> Unwrap(known[i]) ])]_vars

\* C2, witness: a query has been answered with a record.
C2_Witness ==
    \E cb \in DOMAIN callbacks.query :
        /\ callbacks.query[cb].state = "sent"
        /\ Unwrap(callbacks.query[cb].value) # << >>

-----------------------------------------------------------------------------
(* The routing table *)

\* The entries of the table, pending ones included.
TableEntries(kb) ==
    UNION { Range(kb.buckets[d].nodes) \cup
            { NodeEntry(p.enr, p.status) : p \in Range(kb.buckets[d].pending) } :
            d \in Distances }

\* C6: an entry of the table is Connected only if the handler has delivered
\* Established for its node; records added by add_enr or met in discovery
\* do not make a node Connected.
C6_ConnectedOnlyAfterEstablished ==
    \A e \in TableEntries(kbuckets) : e.status = "Connected" => e.enr.id \in sessions

\* C6, witness: after a call of discovered the table holds a Connected node
\* and a node no session was established with.
C6_Witness ==
    /\ out.discovered # << >>
    /\ \E e \in TableEntries(kbuckets) : e.status = "Connected"
    /\ \E e \in TableEntries(kbuckets) : e.enr.id \notin sessions

\* A step that handles a NODES fragment in answer to a FindNode request the
\* service has sent on its own account (one without a callback).
NodesStep(id, body) ==
    /\ body.kind = "Nodes"
    /\ active_requests[id].request_body.kind = "FindNode"
    /\ ~IsSome(active_requests[id].callback)
    /\ Removed(id) \/ fragments' # fragments
    /\ Response(id, body, TRUE)

\* The table holds the same keys in the same places with the same status.
SameKeysAndStatus(kb1, kb2) ==
    \A d \in Distances :
        /\ IdsOf([ i \in 1..Len(kb1.buckets[d].nodes) |-> kb1.buckets[d].nodes[i].enr ])
             = IdsOf([ i \in 1..Len(kb2.buckets[d].nodes) |-> kb2.buckets[d].nodes[i].enr ])
        /\ \A i \in 1..Len(kb1.buckets[d].nodes) :
              kb1.buckets[d].nodes[i].status = kb2.buckets[d].nodes[i].status
        /\ Len(kb1.buckets[d].pending) = Len(kb2.buckets[d].pending)
        /\ \A i \in 1..Len(kb1.buckets[d].pending) :
              /\ kb1.buckets[d].pending[i].enr.id = kb2.buckets[d].pending[i].enr.id
              /\ kb1.buckets[d].pending[i].status = kb2.buckets[d].pending[i].status

\* C5, as stated: handling a NODES response, of which discovered is the only
\* part that touches the table, leaves the keys of the table and the status
\* of every entry as they are.
C5_DiscoveredKeepsKeysAndStatus ==
    [][\A id \in DOMAIN active_requests : \A body \in SpecResponses :
          NodesStep(id, body) => SameKeysAndStatus(kbuckets, kbuckets')]_vars

\* C5, amended: in whatever state and with whatever records it is called for
\* a request in flight (on its last NODES fragment or on its failure),
\* discovered brings no node into the table that the table did not hold (in
\* a bucket or as a pending candidate), changes no node's status and replaces
\* a stored record only by a newer one of the same node; keys move or leave
\* only when a pending candidate's deadline has passed, which the lookup of a
\* record's key applies.
C5_DiscoveredReplacesRecordsOnly ==
    \A id \in DOMAIN active_requests :
    \A enrs \in SeqsUpTo(FirstEnrs \cup FreshEnrs, MaxNodes) :
        LET request == active_requests[id]
            after == discovered(State, request.contact.node_id, enrs,
                                request.query_id).kbuckets IN
        /\ \A e2 \in TableEntries(after) :
              \E e1 \in TableEntries(kbuckets) :
                 /\ e1.enr.id = e2.enr.id
                 /\ e1.status = e2.status
                 /\ e2.enr = e1.enr \/ e2.enr.seq > e1.enr.seq
        /\ (\A d \in Distances : \A i \in 1..Len(kbuckets.buckets[d].pending) :
                ~kbuckets.buckets[d].pending[i].expired)
              => SameKeysAndStatus(kbuckets, after)

\* C5, witness: the table holds a record that the last step passed to
\* discovered.
C5_Witness ==
    \E i \in 1..Len(out.discovered) : \E e \in TableEntries(kbuckets) :
        e.enr \in Range(out.discovered[i].enrs)

-----------------------------------------------------------------------------
(* NODES responses: the distance filter, the ban list and the fragments *)

\* The records of a response at the requested distance of the peer
\* (distance 0: the peer's own).
Conforming(peer, d, nodes) ==
    SelectSeq(nodes, LAMBDA enr : log2_distance(peer, enr.id) = d)

\* C7: the records passed to discovered in the step that takes a
\* FindNode{d} request to peer P out of active_requests are all at log2
\* distance d of P (d = 0: they are P's own).
C7_DiscoveredRecordsAtRequestedDistance ==
    [][\A id \in DOMAIN active_requests :
          (Removed(id) /\ active_requests[id].request_body.kind = "FindNode") =>
             \A i \in 1..Len(out'.discovered) :
                LET enrs == out'.discovered[i].enrs
                IN  Conforming(active_requests[id].contact.node_id,
                               active_requests[id].request_body.arg, enrs) = enrs]_vars

\* C8: after a Nodes response to a FindNode request with a record that fails
\* the distance filter the peer's address is banned, and no step takes an
\* address off the ban list.
C8_FilteredPeerIsBanned ==
    [][/\ ban_list \subseteq ban_list'
       /\ \A id \in DOMAIN active_requests : \A body \in SpecResponses :
             LET request == active_requests[id] IN
             ( /\ body.kind = "Nodes"
               /\ request.request_body.kind = "FindNode"
               /\ Conforming(request.contact.node_id, request.request_body.arg,
                             body.nodes) # body.nodes
               /\ Response(id, body, TRUE) )
             => ContactAddress(request.contact) \in ban_list']_vars

\* The records the accumulator holds for a node.
Accumulated(responses, node_id) ==
    IF node_id \in DOMAIN responses THEN responses[node_id].received_nodes ELSE << >>

\* The records the handling of a fragment of a node passes on: those it adds
\* to the node's accumulator or, with the fragment that ends the exchange,
\* to what it hands to discovered.
PassedOn(responses, responses_after, out_after, node_id, body) ==
    LET before == IF body.total > 1 THEN Accumulated(responses, node_id) ELSE << >>
        after  == IF out_after.discovered # << >> THEN out_after.discovered[1].enrs
                  ELSE Accumulated(responses_after, node_id)
    IN  SubSeq(after, Len(before) + 1, Len(after))

C10_RequestStaysUntilLastFragment ==
    [][\A id \in DOMAIN active_requests : \A body \in SpecResponses :
          LET nth == 1 + (IF id \in DOMAIN fragments THEN fragments[id] ELSE 0) IN
          ( /\ NodesStep(id, body)
            /\ body.total > 1
            /\ nth < Min(body.total, MaxNodesResponses) )
          => /\ id \in DOMAIN active_requests'
             /\ out'.discovered = << >>]_vars

-----------------------------------------------------------------------------
(* SpecTable: the routing table under records of the local node id, with   *)
(* and without the IP quota, for buckets of one and of two nodes.  Peers 4, *)
(* 5 and 6 share a bucket; out keeps what is sent, the events, the calls.   *)

\* Requests the service sends in one behaviour of SpecTable.
TableReq == 2
\* The largest capacity of a bucket in SpecTable.
TableBucketSize == 2
\* The limit of same-/24 entries of a bucket in SpecTable (scaled down).
TableIpLimit == 1

TablePeers == {4, 5, 6}
TableEnrs == { Enr(n, seq) : n \in {LocalId} \cup TablePeers, seq \in 1..MaxSeq }

\* What the peers answer: the local node's own record and peer 5's newest.
TableResponses ==
    NodesBodies({1}, { Enr(LocalId, 1), Enr(5, MaxSeq) }) \cup PongBodies({"sockA"})

InitTable ==
    \E quota \in BOOLEAN : \E size \in 1..TableBucketSize :
        InitWith([ DefaultConfig EXCEPT !.ip_limit = quota ], {"sent", "events", "calls"},
                 [ requests |-> TableReq, queries |-> MaxQueries,
                   bucket_size |-> size, ip_limit |-> TableIpLimit,
                   num_results |-> NumResults ])

NextTable ==
    \/ \E enr \in TableEnrs : AddEnr(enr)
    \/ \E enr \in TableEnrs : Established(enr)
    \/ \E id \in 1..TableReq, body \in TableResponses : Response(id, body, TRUE)
    \/ \E id \in 1..TableReq : RequestFailed(id)
    \/ \E d \in Distances : PendingExpires(d)
    \/ \E target_node \in {1} : StartQuery(target_node)
    \/ \E q \in 1..MaxQueries : QueryPollWaiting(q)
    \/ \E q \in 1..MaxQueries : QueryPollTimedOut(q)

SpecTable == InitTable /\ [][NextTable]_vars

-----------------------------------------------------------------------------------------------------------------------------------------------------
(* SpecQueries: two queries for one target side by side.  Peers 1 and 2, of *)
(* two buckets, establish sessions; the application removes peer 2 from the *)
(* table; a query asks one peer at a time and returns one or two peers.     *)

\* Requests the service sends in one behaviour of SpecQueries.
QueriesReq == 4
\* Queries admitted in one behaviour of SpecQueries.
QueriesMax == 2
\* Discv5Config::query_parallelism in SpecQueries (scaled down).
QueriesParallelism == 1
\* The largest result size K of a query in SpecQueries (scaled down).
QueriesNumResults == 2

QueriesPeers == {1, 2}

\* What the peers answer: no record, or the first record of peer 2.
QueriesResponses == { Nodes(1, << >>), Nodes(1, << Enr(2, 1) >>) }

InitQueries ==
    \E k \in 1..QueriesNumResults :
        InitWith([ DefaultConfig EXCEPT !.query_parallelism = QueriesParallelism ], {},
                 [ requests |-> QueriesReq, queries |-> QueriesMax,
                   bucket_size |-> BucketSize, ip_limit |-> IpLimit,
                   num_results |-> k ])

NextQueries ==
    \/ \E target_node \in {3} : StartQuery(target_node)
    \/ \E n \in QueriesPeers : Established(Enr(n, 1))
    \/ \E n \in {2} : RemoveNode(n)
    \/ \E id \in 1..QueriesReq, body \in QueriesResponses : Response(id, body, TRUE)
    \/ \E q \in 1..QueriesMax : QueryPollWaiting(q)
    \/ \E q \in 1..QueriesMax : QueryPollFinished(q)
    \/ \E q \in 1..QueriesMax : QueryPollTimedOut(q)
    \/ \E q \in 1..QueriesMax, n \in QueriesPeers : QueryPeerTimeout(q, n)

SpecQueries == InitQueries /\ [][NextQueries]_vars

-----------------------------------------------------------------------------
(* SpecLive: a query whose peer does not answer, answers with a body of    *)
(* another kind, or has left the table when the query turns to it.  The    *)
(* loop polls the pool again after every event and at least at every tick  *)
(* of ping_heartbeat, so a query past query_timeout is reported TimedOut.   *)

\* Requests the service sends in one behaviour of SpecLive.
LiveReq == 2

LiveResponses ==
    { Nodes(1, << >>), Nodes(1, << Enr(3, 1) >>), Pong(1, "sockA") }

InitLive ==
    InitWith(DefaultConfig, {},
             [ requests |-> LiveReq, queries |-> MaxQueries,
               bucket_size |-> BucketSize, ip_limit |-> IpLimit,
               num_results |-> NumResults ])

NextLive ==
    \/ \E target_node \in {3} : StartQuery(target_node)
    \/ \E enr \in { Enr(2, 1) } : Established(enr)
    \/ \E n \in {2} : RemoveNode(n)
    \/ \E id \in 1..LiveReq, body \in LiveResponses : Response(id, body, TRUE)
    \/ \E id \in 1..LiveReq : RequestFailed(id)
    \/ \E q \in 1..MaxQueries : QueryPollWaiting(q)
    \/ \E q \in 1..MaxQueries : QueryPollFinished(q)
    \/ \E q \in 1..MaxQueries : QueryPollTimedOut(q)
    \/ \E q \in 1..MaxQueries, n \in {2, 3} : QueryPeerTimeout(q, n)

SpecLive ==
    /\ InitLive
    /\ [][NextLive]_vars
    /\ \A q \in 1..MaxQueries : WF_vars(QueryPollTimedOut(q))

-----------------------------------------------------------------------------
(* SpecPredicate: a predicate query for one or two peers.  The predicate   *)
(* holds of the first record of a node and not of its newer one.  Peers 1  *)
(* and 2 establish sessions, peer 2 also with its newer record.            *)

\* Requests the service sends in one behaviour of SpecPredicate.
PredicateReq == 4
\* The largest target_peer_no of a predicate query.
PredicateMaxPeers == 2

\* The records that satisfy the predicate.
FirstRecords == { enr \in Enrs : enr.seq = 1 }

PredicateResponses == { Nodes(1, << >>), Nodes(1, << Enr(2, MaxSeq) >>) }

InitPredicate ==
    InitWith(DefaultConfig, {},
             [ requests |-> PredicateReq, queries |-> MaxQueries,
               bucket_size |-> BucketSize, ip_limit |-> IpLimit,
               num_results |-> NumResults ])

NextPredicate ==
    \/ \E target_peer_no \in 1..PredicateMaxPeers :
          StartPredicateQuery(3, target_peer_no, FirstRecords)
    \/ \E enr \in { Enr(1, 1), Enr(2, 1), Enr(2, MaxSeq) } : Established(enr)
    \/ \E id \in 1..PredicateReq, body \in PredicateResponses : Response(id, body, TRUE)
    \/ \E q \in 1..MaxQueries : QueryPollWaiting(q)
    \/ \E q \in 1..MaxQueries : QueryPollFinished(q)
    \/ \E q \in 1..MaxQueries : QueryPollTimedOut(q)

SpecPredicate == InitPredicate /\ [][NextPredicate]_vars

-----------------------------------------------------------------------------
(* SpecVote: the IP vote.  Two peers establish sessions and answer the     *)
(* pings with either socket; a request may fail; the write of the local    *)
(* ENR may fail; the caller may ask for the event stream.                  *)

\* Requests the service sends in one behaviour of SpecVote.
VoteReq == 4

VotePeers == {1, 2}

VoteResponses == { Pong(1, socket) : socket \in Sockets }

InitVote ==
    \E update \in BOOLEAN :
        InitWith([ DefaultConfig EXCEPT !.enr_update = update ], {"events", "sent"},
                 [ requests |-> VoteReq, queries |-> MaxQueries,
                   bucket_size |-> BucketSize, ip_limit |-> IpLimit,
                   num_results |-> NumResults ])

NextVote ==
    \/ RequestEventStream
    \/ \E n \in VotePeers : Established(Enr(n, 1))
    \/ \E id \in 1..VoteReq, body \in VoteResponses, enr_write_ok \in BOOLEAN :
          Response(id, body, enr_write_ok)
    \/ \E id \in 1..VoteReq : RequestFailed(id)

SpecVote == InitVote /\ [][NextVote]_vars

-----------------------------------------------------------------------------
(* SpecPending: the pending slot of a bucket of one or two nodes.  Peers 4, *)
(* 5 and 6 share a bucket; records are added, sessions established, pings  *)
(* answered or failed; the deadline of the pending candidate passes; the    *)
(* caller asks for the event stream and its receiver lags or is dropped.    *)

\* Requests the service sends in one behaviour of SpecPending.
PendingReq == 3

InitPending ==
    \E size \in 1..TableBucketSize :
        InitWith(DefaultConfig, {"events"},
                 [ requests |-> PendingReq, queries |-> MaxQueries,
                   bucket_size |-> size, ip_limit |-> TableIpLimit,
                   num_results |-> NumResults ])

NextPending ==
    \/ RequestEventStream
    \/ \E rx \in {"open", "full", "closed"} : StreamReceiver(rx)
    \/ \E n \in {4, 5} : AddEnr(Enr(n, 1))
    \/ \E n \in TablePeers : Established(Enr(n, 1))
    \/ \E id \in 1..PendingReq : Response(id, Pong(1, "sockA"), TRUE)
    \/ \E id \in 1..PendingReq : RequestFailed(id)
    \/ \E d \in Distances : PendingExpires(d)
    \/ BucketMaintenance

SpecPending == InitPending /\ [][NextPending]_vars

-----------------------------------------------------------------------------
(* SpecNodes: FindNode and Ping requests against a bucket of up to sixteen *)
(* nodes.  The application adds the records of peers 16..31, which share a *)
(* bucket, in the order of their ids; peers 16..19 have re-signed their    *)
(* records.  Peers 1 and 16 establish sessions and send requests.          *)

\* Requests the service sends in one behaviour of SpecNodes.
NodesReq == 2

\* The bucket of peers 16..31.
NodesDistance == log2_distance(LocalId, 16)

NodesEnrs ==
    { Enr(n, seq) : n \in 16..19, seq \in 1..MaxSeq } \cup { Enr(n, 1) : n \in 20..31 }

InitNodes ==
    InitWith(DefaultConfig, {},
             [ requests |-> NodesReq, queries |-> MaxQueries,
               bucket_size |-> NumResults, ip_limit |-> IpLimit,
               num_results |-> NumResults ])

NextNodes ==
    \/ \E enr \in NodesEnrs :
          /\ enr.id = 16 + Len(kbuckets.buckets[NodesDistance].nodes)
          /\ AddEnr(enr)
    \/ \E n \in {1, 16} : Established(Enr(n, 1))
    \/ \E n \in {1, 16}, body \in { Ping(1), Ping(MaxSeq), FindNode(NodesDistance) } :
          Request(NodeAddress(n, "udp"), 1, body)
    \/ \E id \in 1..NodesReq : RequestFailed(id)

SpecNodes == InitNodes /\ [][NextNodes]_vars

-----------------------------------------------------------------------------
(* SpecExit: the loop with its exit.  The caller starts a query, asks for a *)
(* record and for the event stream; peers 2 and 3, of one bucket of one     *)
(* node, establish sessions and answer or fail; the pool, the maintenance   *)
(* of the buckets and the heartbeat have their turns; the exit fires.       *)

\* Requests the service sends in one behaviour of SpecExit.
ExitReq == 3

InitExit ==
    InitWith(DefaultConfig, {"sent"},
             [ requests |-> ExitReq, queries |-> MaxQueries,
               bucket_size |-> BucketSize, ip_limit |-> IpLimit,
               num_results |-> NumResults ])

NextExit ==
    \/ Exit
    \/ \E target_node \in {3} : StartQuery(target_node)
    \/ \E contact \in { ContactEnr(Enr(2, 1)) } : FindEnr(contact)
    \/ RequestEventStream
    \/ \E enr \in FirstEnrs : Established(enr)
    \/ \E id \in 1..ExitReq, body \in { Nodes(1, << >>), Pong(1, "sockA") } :
          Response(id, body, TRUE)
    \/ \E id \in 1..ExitReq : RequestFailed(id)
    \/ BucketMaintenance
    \/ \E q \in 1..MaxQueries : QueryPollWaiting(q)
    \/ \E q \in 1..MaxQueries : QueryPollFinished(q)
    \/ \E q \in 1..MaxQueries : QueryPollTimedOut(q)
    \/ PingHeartbeat
    \/ \E d \in Distances : PendingExpires(d)

SpecExit == InitExit /\ [][NextExit]_vars

-----------------------------------------------------------------------------
(* The records of the table: sequence numbers, repeated insertion *)

\* C17: the sequence number of the record the table stores for a node never
\* decreases from one step to the next.
C17_StoredSeqNeverDecreases ==
    [][\A e1 \in TableEntries(kbuckets) : \A e2 \in TableEntries(kbuckets') :
          e1.enr.id = e2.enr.id => e2.enr.seq >= e1.enr.seq]_vars

\* C18: whatever the state, adding a record with add_enr twice leaves the
\* table as adding it once does, and so does handling Established for a
\* record twice.
C18_SameRecordTwiceIsOnce ==
    \A enr \in TableEnrs :
        LET Again(once, twice) == twice.kbuckets = once.kbuckets
            AddedTwice(once) == Again(once, add_enr(once, enr))
            EstablishedTwice(once) == Again(once, inject_session_established(once, enr))
        IN  /\ AddedTwice(add_enr(State, enr))
            /\ EstablishedTwice(inject_session_established(State, enr))

-----------------------------------------------------------------------------
(* The local node's own key *)

\* C19: no bucket and no pending slot holds the local node's key, and no
\* query holds the local node as a candidate or holds a record of it.
C19_NoSelfKey ==
    /\ \A e \in TableEntries(kbuckets) : e.enr.id # LocalId
    /\ \A q \in DOMAIN queries :
          /\ queries[q].peers[LocalId].state = "Unknown"
          /\ \A i \in 1..Len(queries[q].untrusted_enrs) :
                queries[q].untrusted_enrs[i].id # LocalId

\* C19, witness: the last step has called discovered for a query of the pool
\* with a record of the local node id among the records.
C19_Witness ==
    \E i \in 1..Len(out.discovered) :
        /\ IsSome(out.discovered[i].query_id)
        /\ Unwrap(out.discovered[i].query_id) \in DOMAIN queries
        /\ \E k \in 1..Len(out.discovered[i].enrs) :
              out.discovered[i].enrs[k].id = LocalId

-----------------------------------------------------------------------------
(* The IP quota of a bucket *)

\* The Connected nodes of a bucket whose records carry an address of a /24.
ConnectedIn(bucket, subnet) ==
    { i \in 1..Len(bucket.nodes) :
        /\ bucket.nodes[i].status = "Connected"
        /\ Subnet(bucket.nodes[i].enr) = subnet }

\* C20: with ip_limit on, no bucket holds more than the limit of Connected
\* nodes whose records carry addresses of one /24.
C20_QuotaOfConnectedPerBucket ==
    config.ip_limit =>
        \A d \in Distances : \A enr \in Enrs :
            Cardinality(ConnectedIn(kbuckets.buckets[d], Subnet(enr))) <= limits.ip_limit

-----------------------------------------------------------------------------
(* The result of a query *)

\* The vector the caller of a query of the pool receives if the pool reports
\* the query Finished or TimedOut now.
Delivered(q) == Unwrap(QueryDone(State, q).callbacks.query[queries[q].callback].value)

\* The records of the table.
TableRecords == { e.enr : e \in TableEntries(kbuckets) }

\* The records the queries of the pool other than q have learnt.
RecordsOfOthers(q) ==
    UNION { Range(queries[o].untrusted_enrs) : o \in DOMAIN queries \ {q} }

\* A result of at most K records, closest to the target first, of closest
\* succeeded peers of the query, each from one of the sources.
ResultFrom(q, result, sources) ==
    /\ Len(result) <= queries[q].num_results
    /\ \A i \in 1..Len(result) : \A j \in (i + 1)..Len(result) :
          Xor(result[i].id, queries[q].target) < Xor(result[j].id, queries[q].target)
    /\ \A i \in 1..Len(result) :
          /\ result[i] \in sources
          /\ result[i].id \in Range(ClosestPeers(queries[q]))
    /\ \A n \in Range(ClosestPeers(queries[q])) :
          (\A i \in 1..Len(result) : result[i].id # n)
              => \A enr \in sources : enr.id # n

-----------------------------------------------------------------------------
(* The requests of a query in flight *)

\* The peers of a query with a request in flight.
InFlight(query) == PeersIn(query, {"Waiting"})

\* C12: a query never has more than query_parallelism peers in flight; a
\* peer becomes Waiting only from NotContacted, and only in a step before
\* which fewer than query_parallelism peers of the query are in flight,
\* Unresponsive peers not counted.
C12_InFlightWithinParallelism ==
    [][\A q \in DOMAIN queries' :
          /\ Cardinality(InFlight(queries'[q])) <= config.query_parallelism
          /\ q \in DOMAIN queries =>
                \A n \in InFlight(queries'[q]) \ InFlight(queries[q]) :
                    /\ queries[q].peers[n].state = "NotContacted"
                    /\ Cardinality(InFlight(queries[q])) < config.query_parallelism]_vars

\* C12, witness: a query with an Unresponsive peer has query_parallelism
\* peers in flight, each contacted after the Unresponsive one.
C12_Witness ==
    \E q \in DOMAIN queries :
        /\ PeersIn(queries[q], {"Unresponsive"}) # {}
        /\ Cardinality(InFlight(queries[q])) = config.query_parallelism

-----------------------------------------------------------------------------
(* The end of a query *)

\* C13: every query of the pool leaves the pool.
C13_QueryLeavesPool ==
    \A q \in 1..MaxQueries : (q \in DOMAIN queries) ~> (q \notin DOMAIN queries)

\* C13, witness: a query of the pool waits for a peer no request to which
\* is in flight, and has no other peer to turn to.
C13_Witness ==
    \E q \in DOMAIN queries :
        /\ PeersIn(queries[q], {"Waiting"}) # {}
        /\ PeersIn(queries[q], {"NotContacted"}) = {}
        /\ \A id \in DOMAIN active_requests : active_requests[id].query_id # Some(q)

-----------------------------------------------------------------------------
(* The result of a predicate query *)

\* C14: the result of a predicate query for n peers holds at most n records,
\* and each of them satisfies the predicate.
C14_PredicateResultSatisfies ==
    \A q \in DOMAIN queries :
        "predicate" \in DOMAIN queries[q] =>
            /\ Len(Delivered(q)) <= queries[q].num_results
            /\ \A enr \in Range(Delivered(q)) : enr \in queries[q].predicate

-----------------------------------------------------------------------------
(* The IP vote and the local record *)

\* SocketUpdated(socket) is among the events a step has sent.
EmitsSocketUpdated(events, socket) ==
    \E i \in 1..Len(events) :
        events[i] = [ type |-> "SocketUpdated", socket |-> socket ]

\* C15: a step emits SocketUpdated(s), or rewrites the socket of the local
\* record to s, only if enr_update is on, at least EnrPeerUpdateMin node ids
\* have s as their vote after the step's vote is counted, and s is not the
\* socket of the local record before the step.
C15_SocketUpdatedOnlyOnMajority ==
    [][\A socket \in Sockets :
          (\/ EmitsSocketUpdated(out'.events, socket)
           \/ /\ local_enr'.socket = Some(socket)
              /\ local_enr.socket # Some(socket))
          => /\ config.enr_update
             /\ IsSome(ip_votes')
             /\ VoteCount(Unwrap(ip_votes'), socket) >= EnrPeerUpdateMin
             /\ local_enr.socket # Some(socket)]_vars

\* C15: SocketUpdated(sockB) was emitted and the local record rewritten to
\* sockB, which EnrPeerUpdateMin peers voted for.
C15_Witness ==
    /\ \E i \in 1..Len(out.events) :
          out.events[i] = [ type |-> "SocketUpdated", socket |-> "sockB" ]
    /\ local_enr.socket = Some("sockB")
    /\ local_enr.seq = 2
    /\ VoteCount(Unwrap(ip_votes), "sockB") = EnrPeerUpdateMin

\* A Ping to node_id is registered and sent by the step.
PingedInStep(node_id) ==
    \E id \in DOMAIN active_requests' \ DOMAIN active_requests :
        /\ active_requests'[id].request_body.kind = "Ping"
        /\ active_requests'[id].contact.node_id = node_id
        /\ \E i \in 1..Len(out'.sent) :
              /\ out'.sent[i].type = "Request"
              /\ out'.sent[i].id = id

\* C16: after a step that emits SocketUpdated(s) the local record has socket
\* s and a seq one higher than before, and the step has registered and sent
\* a Ping to every Connected entry of the table.
C16_SocketUpdatedRewritesAndPings ==
    [][\A socket \in Sockets :
          EmitsSocketUpdated(out'.events, socket)
          => /\ local_enr'.socket = Some(socket)
             /\ local_enr'.seq = local_enr.seq + 1
             /\ \A e \in Range(TableIter(kbuckets', Distances)) :
                   e.status = "Connected" => PingedInStep(e.enr.id)]_vars

-----------------------------------------------------------------------------
(* The pending slot: promotion and its report *)

\* The step moves the pending candidate of bucket d into the bucket.
Promoted(d) ==
    /\ kbuckets.buckets[d].pending # << >>
    /\ PositionOf(kbuckets.buckets[d].nodes, kbuckets.buckets[d].pending[1].enr.id) = 0
    /\ PositionOf(kbuckets'.buckets[d].nodes, kbuckets.buckets[d].pending[1].enr.id) # 0

\* The records of the promotions of a step, bucket by bucket.
RECURSIVE PromotionRecords(_)
PromotionRecords(ds) ==
    IF ds = {} THEN << >>
    ELSE LET d == CHOOSE x \in ds : \A y \in ds : x <= y
         IN  << [ inserted |-> kbuckets.buckets[d].pending[1].enr.id,
                  evicted |-> Some(kbuckets.buckets[d].pending[1].nominee) ] >>
                 \o PromotionRecords(ds \ {d})

\* The NodeInserted events of a step that report a replacement.
ReplacementReports ==
    { i \in 1..Len(out'.events) :
        /\ out'.events[i].type = "NodeInserted"
        /\ out'.events[i].replaced # None }

StreamOpen == event_stream.stream = "Some" /\ event_stream.rx = "open"

\* What a step does with the queue of promotions: taken is the number of
\* records it takes from the front, after adding those of its own promotions.
QueueStep(queue, taken) ==
    /\ taken \in {0, 1}
    /\ taken <= Len(queue)
    /\ kbuckets'.applied_pending = SubSeq(queue, taken + 1, Len(queue))
    /\ IF taken = 1 /\ StreamOpen
       THEN /\ Cardinality(ReplacementReports) = 1
            /\ \A i \in ReplacementReports :
                  out'.events[i] = [ type |-> "NodeInserted", node_id |-> queue[1].inserted,
                                     replaced |-> queue[1].evicted ]
       ELSE ReplacementReports = {}

\* C21: a pending candidate is promoted only after its deadline and with its
\* nominee Disconnected; the promotion evicts the nominee and is recorded
\* once; a record leaves the queue of promotions only in a step that hands
\* NodeInserted{candidate, Some(nominee)} to the event stream, once.
C21_PromotedOnceReportedOnce ==
    [][LET promoted == { d \in Distances : Promoted(d) }
           queue == kbuckets.applied_pending \o PromotionRecords(promoted)
       IN  /\ \A d \in promoted :
                 LET b == kbuckets.buckets[d]
                     nominee == PositionOf(b.nodes, b.pending[1].nominee)
                 IN  /\ b.pending[1].expired
                     /\ nominee # 0
                     /\ b.nodes[nominee].status = "Disconnected"
                     /\ PositionOf(kbuckets'.buckets[d].nodes, b.pending[1].nominee) = 0
                     /\ Len(kbuckets'.buckets[d].nodes) = Len(b.nodes)
           /\ QueueStep(queue, Len(queue) - Len(kbuckets'.applied_pending))]_vars

\* C21: the stream has the report of a promotion: the candidate is in the
\* bucket, the nominee is not, and the queue of promotions is empty.
C21_Witness ==
    \E i \in 1..Len(out.events) :
        /\ out.events[i].type = "NodeInserted"
        /\ out.events[i].replaced # None
        /\ out.events[i].node_id \in PresentIds(kbuckets)
        /\ Unwrap(out.events[i].replaced) \notin PresentIds(kbuckets)
        /\ kbuckets.applied_pending = << >>

\* The nominee of bucket d's pending candidate becomes Connected in the step,
\* before the deadline of the candidate.
NomineeConnects(d) ==
    LET b == kbuckets.buckets[d] IN
    /\ b.pending # << >>
    /\ ~b.pending[1].expired
    /\ \E e \in Range(b.nodes) :
          e.enr.id = b.pending[1].nominee /\ e.status = "Disconnected"
    /\ \E e \in Range(kbuckets'.buckets[d].nodes) :
          e.enr.id = b.pending[1].nominee /\ e.status = "Connected"

\* C22: when the nominee of a pending candidate becomes Connected before the
\* deadline, the candidate leaves the pending slot without entering the
\* bucket, no promotion is recorded, no NodeInserted is emitted for it, and
\* the nominee stays in the bucket.
C22_ConnectedNomineeCancelsPromotion ==
    [][\A d \in Distances :
          NomineeConnects(d) =>
             LET candidate == kbuckets.buckets[d].pending[1].enr.id IN
             /\ kbuckets'.buckets[d].pending = << >>
             /\ PositionOf(kbuckets'.buckets[d].nodes, candidate) = 0
             /\ kbuckets'.applied_pending = kbuckets.applied_pending
             /\ \A i \in 1..Len(out'.events) :
                   out'.events[i].type = "NodeInserted" => out'.events[i].node_id # candidate
             /\ Len(kbuckets'.buckets[d].nodes) = Len(kbuckets.buckets[d].nodes)]_vars

\* C22: the nominee of a pending candidate is Disconnected and a Ping to it
\* is in flight before the deadline; handling its Pong makes it Connected and
\* empties the pending slot, and the candidate is not in the bucket.
C22_Witness ==
    \E d \in Distances : \E id \in DOMAIN active_requests :
        LET b == kbuckets.buckets[d]
            Cancelled(t) ==
                /\ t.kbuckets.buckets[d].pending = << >>
                /\ PositionOf(t.kbuckets.buckets[d].nodes, b.pending[1].enr.id) = 0
                /\ \E e \in Range(t.kbuckets.buckets[d].nodes) :
                      e.enr.id = b.pending[1].nominee /\ e.status = "Connected"
        IN  /\ b.pending # << >>
            /\ ~b.pending[1].expired
            /\ active_requests[id].contact.node_id = b.pending[1].nominee
            /\ active_requests[id].request_body.kind = "Ping"
            /\ b.pending[1].nominee \in sessions
            /\ \E e \in Range(b.nodes) :
                  e.enr.id = b.pending[1].nominee /\ e.status = "Disconnected"
            /\ Cancelled(handle_rpc_response(State, id, Pong(1, "sockA"), TRUE))

-----------------------------------------------------------------------------
(* The NODES responses to a FindNode request *)

\* What the service sends when node n, which has a session, asks for the
\* bucket of peers 16..31 under rpc id 1.
NodesSentTo(n) ==
    handle_rpc_request(State, NodeAddress(n, "udp"), 1, FindNode(NodesDistance)).out.sent

\* The sum of the encoded sizes of the records of a fragment.
RECURSIVE Payload(_)
Payload(nodes) ==
    IF nodes = << >> THEN 0 ELSE EncodedSize(Head(nodes)) + Payload(Tail(nodes))

\* C23: every fragment has a payload of at most MAX_PACKET_SIZE - 92 bytes,
\* and a fragment ends exactly where the next record would not have fitted.
C23_FragmentsPackedToTheLimit ==
    \A n \in sessions :
        LET Packed(sent) ==
                /\ \A i \in 1..Len(sent) :
                      Payload(sent[i].body.nodes) <= MAX_PACKET_SIZE - PacketOverhead
                /\ \A i \in 1..(Len(sent) - 1) :
                      Payload(sent[i].body.nodes) + EncodedSize(sent[i + 1].body.nodes[1])
                          > MAX_PACKET_SIZE - PacketOverhead
        IN  Packed(NodesSentTo(n))

\* C24: a FindNode request for a bucket is answered with at most
\* MaxNodesResponses NODES responses.
C24_AtMostFiveResponses ==
    \A n \in sessions : Len(NodesSentTo(n)) <= MaxNodesResponses

\* The node lists of the responses, one after the other.
RECURSIVE NodesOf(_)
NodesOf(sent) ==
    IF sent = << >> THEN << >> ELSE Head(sent).body.nodes \o NodesOf(Tail(sent))

\* The records of a bucket in their order, without the record of node n.
RecordsWithout(nodes, n) ==
    LET NotOfRequester(e) == e.enr.id # n
        kept == SelectSeq(nodes, NotOfRequester)
    IN  [ i \in 1..Len(kept) |-> kept[i].enr ]

\* C29: the responses to FindNode{d} go to the requester under the rpc id of
\* the request, each with total equal to their number, at least one; their
\* node lists, one after the other, are the records of bucket d without the
\* requester's own; an empty bucket is answered by one empty response.
C29_ResponsesCarryTheBucket ==
    \A n \in sessions :
        LET Answered(sent, records) ==
                /\ Len(sent) >= 1
                /\ \A i \in 1..Len(sent) :
                      /\ sent[i].type = "Response"
                      /\ sent[i].to = NodeAddress(n, "udp")
                      /\ sent[i].id = 1
                      /\ sent[i].body.kind = "Nodes"
                      /\ sent[i].body.total = Len(sent)
                /\ NodesOf(sent) = records
                /\ records = << >> => Len(sent) = 1
        IN  Answered(NodesSentTo(n),
                     RecordsWithout(kbuckets.buckets[NodesDistance].nodes, n))

\* C29: a requester whose own record is in the bucket is answered with more
\* than one response.
C29_Witness ==
    \E n \in sessions :
        /\ PositionOf(kbuckets.buckets[NodesDistance].nodes, n) # 0
        /\ Len(NodesSentTo(n)) >= 2

-----------------------------------------------------------------------------
(* The answer to a Ping *)

\* The state after a Ping with this enr_seq from node n under rpc id 1.
AfterPing(n, enr_seq) ==
    handle_rpc_request(State, NodeAddress(n, "udp"), 1, Ping(enr_seq))

\* The Pongs among the messages: one, to node n, with the local seq and the
\* socket the Ping came from.
OnePong(sent, n) ==
    LET pongs == { i \in 1..Len(sent) : sent[i].type = "Response" } IN
    /\ Cardinality(pongs) = 1
    /\ \A i \in pongs : sent[i] = [ type |-> "Response", to |-> NodeAddress(n, "udp"),
                                    id |-> 1, body |-> Pong(local_enr.seq, "udp") ]

\* C25 as stated: a Ping from a node that is in a bucket or in a pending slot
\* is answered with one Pong; a Ping from any other node sends nothing and
\* changes nothing.
C25_PongIffInTable ==
    \A n \in sessions : \A enr_seq \in 1..MaxSeq :
        IF n \in PresentIds(kbuckets) \cup PendingIds(kbuckets)
        THEN OnePong(AfterPing(n, enr_seq).out.sent, n)
        ELSE AfterPing(n, enr_seq) = State

\* C25, amended: the lookup of the node first promotes the pending candidate
\* of its bucket if the deadline has passed; a node that then has an entry
\* is answered with one Pong, and for a node that then has none nothing is
\* sent and nothing but that promotion changes.
C25_PongIffEntryFound ==
    \A n \in sessions : \A enr_seq \in 1..MaxSeq :
        LET Looked(entry) ==
                IF entry.kind \in {"Present", "Pending"}
                THEN OnePong(AfterPing(n, enr_seq).out.sent, n)
                ELSE AfterPing(n, enr_seq) = [ State EXCEPT !.kbuckets = entry.kb ]
        IN  Looked(TableEntry(kbuckets, n))

\* C25: a node with a session is in its bucket, the deadline of the bucket's
\* pending candidate has passed, and the lookup of the node evicts it: its
\* Ping is not answered.
C25_Witness ==
    \E n \in sessions :
        /\ n \in PresentIds(kbuckets)
        /\ TableEntry(kbuckets, n).kind = "Absent"
        /\ AfterPing(n, 1).out.sent = << >>
        /\ AfterPing(n, 1).kbuckets # kbuckets

-----------------------------------------------------------------------------
(* A failed request *)

\* C26: after RequestFailed for an active request, the node the request went
\* to is Disconnected in the table if the table holds it.
C26_FailedPeerIsDisconnected ==
    \A id \in DOMAIN active_requests :
        \A e \in TableEntries(rpc_failure(State, id).kbuckets) :
            e.enr.id = active_requests[id].contact.node_id => e.status = "Disconnected"

-----------------------------------------------------------------------------
(* The exit of the loop *)

\* The table without the clocks of its pending candidates.
WithoutDeadlines(kb) ==
    [ kb EXCEPT !.buckets =
        [ d \in DOMAIN @ |->
            [ @[d] EXCEPT !.pending =
                [ i \in DOMAIN @ |-> [ @[i] EXCEPT !.expired = FALSE ] ] ] ] ]

ExitSignals(sent) == { i \in 1..Len(sent) : sent[i].type = "Exit" }

\* C27: the handler's exit signal is sent once, in the step in which the
\* loop returns; once the loop has returned the service sends nothing and no
\* part of its state changes (the deadlines of pending candidates still pass).
C27_ExitOnceThenNothing ==
    [][/\ Cardinality(ExitSignals(out'.sent)) = IF running /\ ~running' THEN 1 ELSE 0
       /\ ~running =>
            /\ out' = EmptyOut
            /\ WithoutDeadlines(kbuckets') = WithoutDeadlines(kbuckets)
            /\ UNCHANGED << queries, next_query, active_requests, next_id,
                            active_nodes_responses, ip_votes, local_enr, ban_list,
                            event_stream, callbacks, sessions, fragments, running >>]_vars

\* C27: the loop has returned with a query in the pool, a request in flight
\* and a promotion that the maintenance of the buckets would have reported.
C27_Witness ==
    /\ ~running
    /\ DOMAIN queries # {}
    /\ DOMAIN active_requests # {}
    /\ ApplyAllPending(kbuckets, Distances).applied_pending # << >>

\* The events of the service.
StreamEvents ==
    { [ type |-> "SocketUpdated", socket |-> "sockB" ],
      [ type |-> "NodeInserted", node_id |-> 4, replaced |-> None ] }

\* The events of a step that went through the stream of the service (EnrAdded
\* goes to the queue of Discv5 instead).
ServiceEvents(events) ==
    { i \in 1..Len(events) : events[i].type # "EnrAdded" }

\* The state s with the receiver of its stream lagging behind a full channel,
\* and without the events of the step.
AsWithFullStream(s) == [ s EXCEPT !.out.events = << >>, !.event_stream.rx = "full" ]

\* The receiver of the registered stream has taken every event so far.
WithOpenStream == [ State EXCEPT !.event_stream.rx = "open" ]

\* A handler's result with a full channel is its result with an open one,
\* less the events.
FullStreamOnlyLosesEvents ==
    event_stream = [ stream |-> "Some", rx |-> "full" ] =>
        /\ ApplyAllPending(kbuckets, Distances).applied_pending # << >> =>
              bucket_maintenance(State) = AsWithFullStream(bucket_maintenance(WithOpenStream))
        /\ \A n \in TablePeers :
              inject_session_established(State, Enr(n, 1))
                  = AsWithFullStream(inject_session_established(WithOpenStream, Enr(n, 1)))

\* C28: with a full channel send_event returns the state it was given, stream
\* registered and event lost, and a handler changes the state as it does with
\* an open channel; only a closed receiver unregisters the stream, in
\* send_event and in every step; with no stream the event is lost.
C28_FullStreamDropsEventOnly ==
    /\ [](/\ \A event \in StreamEvents :
               /\ event_stream.stream = "None" \/ event_stream.rx = "full" =>
                      send_event(State, event) = State
               /\ send_event(State, event).event_stream.stream # event_stream.stream =>
                      /\ event_stream = [ stream |-> "Some", rx |-> "closed" ]
                      /\ send_event(State, event)
                             = [ State EXCEPT !.event_stream.stream = "None" ]
          /\ FullStreamOnlyLosesEvents)
    /\ [][/\ event_stream = [ stream |-> "Some", rx |-> "full" ] =>
                /\ ServiceEvents(out'.events) = {}
                /\ event_stream'.stream = "Some"
          /\ event_stream.stream = "Some" /\ event_stream'.stream = "None" =>
                event_stream.rx = "closed"
          /\ event_stream.stream = "None" /\ event_stream'.stream = "None" =>
                ServiceEvents(out'.events) = {}]_vars

\* C28: the channel is full, a promotion waits to be reported, and reporting
\* it takes the record off the queue, loses the event and keeps the stream.
C28_Witness ==
    /\ event_stream = [ stream |-> "Some", rx |-> "full" ]
    /\ ApplyAllPending(kbuckets, Distances).applied_pending # << >>
    /\ bucket_maintenance(State).out.events = << >>
    /\ bucket_maintenance(State).event_stream = event_stream
    /\ Len(bucket_maintenance(State).kbuckets.applied_pending)
           < Len(ApplyAllPending(kbuckets, Distances).applied_pending)
    /\ bucket_maintenance(WithOpenStream).out.events # << >>

\* The query q after the records enrs of the peer source have been handed to
\* discovered for it.
QueryLearns(q, source, enrs) ==
    LET other == SeqFilterIdx(enrs, [ i \in 1..Len(enrs) |-> enrs[i].id # LocalId ], 1)
    IN  OnSuccess([ q EXCEPT !.untrusted_enrs = PushUntrusted(@, other) ], source, other)

\* The records accumulated from the NODES responses of the peer n.
ReceivedFrom(n) ==
    IF n \in DOMAIN active_nodes_responses
    THEN active_nodes_responses[n].received_nodes
    ELSE << >>

\* The query q is, after the failure of a request to the peer n, as
\* on_success with the accumulated records leaves it when responses had been
\* accumulated, and as on_failure leaves it otherwise.  Responses accumulated
\* without a record in them count either way.
NotifiedOfFailure(q, after, n) ==
    IF ReceivedFrom(n) # << >> THEN after = QueryLearns(q, n, ReceivedFrom(n))
    ELSE IF n \in DOMAIN active_nodes_responses
    THEN after \in { QueryLearns(q, n, << >>), OnFailure(q, n) }
    ELSE after = OnFailure(q, n)

\* C30: the failure of an active request of a query in the pool tells the
\* query of the peer, by on_success with the accumulated records or by
\* on_failure.
C30_FailureNotifiesTheQuery ==
    \A id \in DOMAIN active_requests :
        LET query_id == active_requests[id].query_id
        IN  IsSome(query_id) /\ Unwrap(query_id) \in DOMAIN queries =>
                NotifiedOfFailure(queries[Unwrap(query_id)],
                                  rpc_failure(State, id).queries[Unwrap(query_id)],
                                  active_requests[id].contact.node_id)

\* C30, where no response had been accumulated, or one with records in it.
C30_FailureNotifiesUnlessEmptyFragments ==
    \A id \in DOMAIN active_requests :
        LET query_id == active_requests[id].query_id
            n == active_requests[id].contact.node_id
        IN  /\ IsSome(query_id) /\ Unwrap(query_id) \in DOMAIN queries
            /\ n \in DOMAIN active_nodes_responses => ReceivedFrom(n) # << >>
            => NotifiedOfFailure(queries[Unwrap(query_id)],
                                 rpc_failure(State, id).queries[Unwrap(query_id)], n)

-----------------------------------------------------------------------------
(* SpecAdmit: what the table admits.  Two peers of one bucket, each with an *)
(* older and a newer record; the table filter may reject peer 5's newer     *)
(* record and the IP quota may be on; the peers establish sessions, ping,   *)
(* answer pings and requests for their record, or fail to.                  *)

\* Requests the service sends in one behaviour of SpecAdmit.
AdmitReq == 2

AdmitPeers == {4, 5}
AdmitEnrs == { Enr(n, seq) : n \in AdmitPeers, seq \in 1..MaxSeq }

\* Discv5Config::table_filter: every record, or every record but one.
AdmitFilters == { Enrs, Enrs \ { Enr(5, MaxSeq) } }

AdmitResponses ==
    { Nodes(1, << enr >>) : enr \in AdmitEnrs } \cup PongBodies({"sockA"})

InitAdmit ==
    \E quota \in BOOLEAN : \E filter \in AdmitFilters : \E size \in 1..TableBucketSize :
        InitWith([ DefaultConfig EXCEPT !.ip_limit = quota, !.table_filter = filter ],
                 {"sent"},
                 [ requests |-> AdmitReq, queries |-> MaxQueries,
                   bucket_size |-> size, ip_limit |-> TableIpLimit,
                   num_results |-> NumResults ])

NextAdmit ==
    \/ \E enr \in AdmitEnrs : AddEnr(enr)
    \/ \E enr \in AdmitEnrs : Established(enr)
    \/ \E n \in AdmitPeers, enr_seq \in 1..MaxSeq :
          Request(NodeAddress(n, "udp"), 1, Ping(enr_seq))
    \/ \E id \in 1..AdmitReq, body \in AdmitResponses : Response(id, body, TRUE)
    \/ \E id \in 1..AdmitReq : RequestFailed(id)
    \/ \E d \in Distances : PendingExpires(d)

SpecAdmit == InitAdmit /\ [][NextAdmit]_vars

-----------------------------------------------------------------------------
(* The refresh of a peer's record *)

\* The sequence number of the record the table kb yields for node n when it
\* is looked up, 0 when it yields none.
StoredSeqIn(kb, n) ==
    LET SeqOf(te) == IF te.kind \in {"Present", "Pending"} THEN Unwrap(te.enr).seq ELSE 0
    IN  SeqOf(TableEntry(kb, n))

\* The record the table yields for node n.
StoredEnr(n) == Unwrap(TableEntry(kbuckets, n).enr)

\* The active requests that ask the peer n for its own record on the
\* service's own account.
RefreshRequests(n) ==
    { id \in DOMAIN active_requests :
        /\ active_requests[id].contact.node_id = n
        /\ active_requests[id].request_body = FindNode(0)
        /\ active_requests[id].callback = None
        /\ active_requests[id].query_id = None }

\* The state after the peer n has sent Ping{enr_seq}.
AfterPingOf(n, enr_seq) == handle_rpc_request(State, NodeAddress(n, "udp"), 1, Ping(enr_seq))

\* The Ping of a peer whose stored record is older is answered by a
\* FindNode{0} request to it and the Pong; any other Ping of a stored peer by
\* the Pong alone.
PingRefreshes(n, enr_seq) ==
    LET pong == [ type |-> "Response", to |-> NodeAddress(n, "udp"), id |-> 1,
                  body |-> Pong(local_enr.seq, "udp") ]
        request == ActiveRequest(ContactEnr(StoredEnr(n)), FindNode(0), None, None)
    IN  IF enr_seq > StoredSeqIn(kbuckets, n)
        THEN /\ AfterPingOf(n, enr_seq).active_requests = MapPut(active_requests, next_id, request)
             /\ AfterPingOf(n, enr_seq).out.sent =
                    << [ type |-> "Request", contact |-> request.contact, id |-> next_id,
                         body |-> FindNode(0) ], pong >>
        ELSE /\ AfterPingOf(n, enr_seq).active_requests = active_requests
             /\ AfterPingOf(n, enr_seq).out.sent = << pong >>

\* C31: a stored peer's Ping with a greater enr_seq makes the service
\* register and send FindNode{0} to it and answer with the Pong, a Ping with
\* no greater enr_seq only the Pong; and when the peer answers such a request
\* with its record of a greater seq, the table holds that record afterwards.
C31_StalePeerIsRefreshed ==
    \A n \in PresentIds(kbuckets) \cup PendingIds(kbuckets) :
        StoredSeqIn(kbuckets, n) > 0 =>
            /\ \A enr_seq \in 1..MaxSeq : PingRefreshes(n, enr_seq)
            /\ \A id \in RefreshRequests(n) : \A e \in 1..MaxSeq :
                  e > StoredSeqIn(kbuckets, n) =>
                      StoredSeqIn(handle_rpc_response(State, id, Nodes(1, << Enr(n, e) >>),
                                                      TRUE).kbuckets, n) = e


\* The record enr of node n may enter the table: it passes the table filter
\* and, with ip_limit on, the IP quota of its bucket.
Admitted(n, enr) ==
    /\ table_filter(State, enr)
    /\ config.ip_limit => TableCheck(kbuckets, n, enr)

\* C31, amended: as C31, and the answered record is stored if it passes the
\* table filter and the IP quota; if it does not, the stored record stays.
C31_StalePeerIsRefreshedIfAdmitted ==
    \A n \in PresentIds(kbuckets) \cup PendingIds(kbuckets) :
        StoredSeqIn(kbuckets, n) > 0 =>
            /\ \A enr_seq \in 1..MaxSeq : PingRefreshes(n, enr_seq)
            /\ \A id \in RefreshRequests(n) : \A e \in 1..MaxSeq :
                  e > StoredSeqIn(kbuckets, n) =>
                      StoredSeqIn(handle_rpc_response(State, id, Nodes(1, << Enr(n, e) >>),
                                                      TRUE).kbuckets, n)
                          = IF Admitted(n, Enr(n, e)) THEN e ELSE StoredSeqIn(kbuckets, n)

\* C31: a FindNode{0} request to a stored peer is active, the peer's record
\* is older than the one it answers with, and the table takes the new one.
C31_Witness ==
    \E n \in Peers : \E id \in RefreshRequests(n) :
        /\ config.ip_limit
        /\ StoredSeqIn(kbuckets, n) = 1
        /\ Admitted(n, Enr(n, MaxSeq))
        /\ Len(kbuckets.buckets[log2_distance(LocalId, n)].nodes) > 1
        /\ StoredSeqIn(handle_rpc_response(State, id, Nodes(1, << Enr(n, MaxSeq) >>),
                                           TRUE).kbuckets, n) = MaxSeq

-----------------------------------------------------------------------------
(* A new session *)

\* The state with an event stream whose receiver takes every event, so that
\* out.events are the events a handler hands to send_event.
Streaming == [ State EXCEPT !.event_stream = [ stream |-> "Some", rx |-> "open" ] ]

\* The state after Established(enr).
AfterEstablished(enr) == inject_session_established(Streaming, enr)

\* The entry of node n in the table kb: [kind, enr, status].
EntryIn(kb, n) ==
    LET View(te) == [ kind |-> te.kind, enr |-> te.enr, status |-> te.status ]
    IN  View(TableEntry(kb, n))

\* The bucket of node n as a lookup finds it has a free place.
HasRoom(n) ==
    Len(TableEntry(kbuckets, n).kb.buckets[log2_distance(LocalId, n)].nodes)
        < limits.bucket_size

\* The Ping requests to node n among the messages sent.
PingsTo(sent, n) ==
    { i \in 1..Len(sent) :
        /\ sent[i].type = "Request"
        /\ sent[i].body.kind = "Ping"
        /\ sent[i].contact.node_id = n }

\* The NodeInserted events among events.
Insertions(events) == { i \in 1..Len(events) : events[i].type = "NodeInserted" }

\* Established(enr), leading to t, ends with the one Ping to enr, registered
\* under the id it is sent with.
InitialPing(enr, t) ==
    LET last == Len(t.out.sent) IN
    /\ PingsTo(t.out.sent, enr.id) = {last}
    /\ t.out.sent[last].contact = ContactEnr(enr)
    /\ t.out.sent[last].body = Ping(local_enr.seq)
    /\ t.out.sent[last].id = t.next_id - 1
    /\ t.out.sent[last].id \notin DOMAIN active_requests
    /\ t.active_requests[t.out.sent[last].id]
          = ActiveRequest(ContactEnr(enr), Ping(local_enr.seq), None, None)

\* An absent node that is admitted and finds room is Present and Connected
\* in t and reported by one NodeInserted{replaced: None}.
AbsentIsInserted(enr, before, t) ==
    before.kind = "Absent" /\ Admitted(enr.id, enr) /\ HasRoom(enr.id)
    => /\ EntryIn(t.kbuckets, enr.id)
            = [ kind |-> "Present", enr |-> Some(enr), status |-> "Connected" ]
       /\ Cardinality(Insertions(t.out.events)) = 1
       /\ \A i \in Insertions(t.out.events) :
              t.out.events[i] = [ type |-> "NodeInserted", node_id |-> enr.id,
                                  replaced |-> None ]

\* A present node is Connected in t.
PresentIsConnected(enr, before, t) ==
    before.kind = "Present" => EntryIn(t.kbuckets, enr.id).status = "Connected"

\* A present node is Connected in t; if its record fails the table filter it
\* is as before, and if it fails the IP quota it is Disconnected.
PresentIsConnectedIfAdmitted(enr, before, t) ==
    before.kind = "Present" =>
        EntryIn(t.kbuckets, enr.id).status
            = IF ~table_filter(State, enr) THEN before.status
              ELSE IF Admitted(enr.id, enr) THEN "Connected"
              ELSE "Disconnected"

\* The records sessions are established with.
SessionEnrs == { x \in Enrs : x.id \in 1..6 }

\* Established(enr) as C32 has it, from the entry before to the state t.
EstablishedAsStated(enr, before, t) ==
    /\ InitialPing(enr, t)
    /\ AbsentIsInserted(enr, before, t)
    /\ PresentIsConnected(enr, before, t)

\* Established(enr) as the amended C32 has it.
EstablishedAsAmended(enr, before, t) ==
    /\ InitialPing(enr, t)
    /\ AbsentIsInserted(enr, before, t)
    /\ PresentIsConnectedIfAdmitted(enr, before, t)

\* C32: Established(enr) inserts an absent node that is admitted and finds
\* room, as Connected and with NodeInserted{replaced: None}, makes a present
\* node Connected, and then sends the one initial Ping to enr, admitted or not.
C32_EstablishedUpdatesThenPings ==
    \A enr \in SessionEnrs :
        EstablishedAsStated(enr, EntryIn(kbuckets, enr.id), AfterEstablished(enr))

\* C32, amended: as C32, but a present node whose record fails the table
\* filter is left as it is, and one whose record fails the IP quota becomes
\* Disconnected.
C32_EstablishedUpdatesAdmittedThenPings ==
    \A enr \in SessionEnrs :
        EstablishedAsAmended(enr, EntryIn(kbuckets, enr.id), AfterEstablished(enr))

\* C32: with the IP quota on, a session has been established with a node the
\* table has not taken, and the last message sent is the Ping to it.
C32_Witness ==
    \E n \in sessions :
        /\ config.ip_limit
        /\ n \notin PresentIds(kbuckets) \cup PendingIds(kbuckets)
        /\ out.sent # << >>
        /\ PingsTo(out.sent, n) = { Len(out.sent) }

-----------------------------------------------------------------------------
(* A Pong *)

\* The active Ping requests.
ActivePings ==
    { id \in DOMAIN active_requests : active_requests[id].request_body.kind = "Ping" }

\* The record known for node n, as find_enr has it: the one of its bucket,
\* else the first one a query holds.
KnownEnr(n) == find_enr(State, n).enr

\* The IP quota is on and the record known for n fails its check.
QuotaDowngrades(n) ==
    /\ config.ip_limit
    /\ KnownEnr(n) # None
    /\ ~TableCheck(TableEntry(kbuckets, n).kb, n, KnownEnr(n)[1])

\* A FindNode{0} request to node n is registered in t under a fresh id and
\* sent with it.
RefreshSent(n, t) ==
    \E i \in 1..Len(t.out.sent) :
        /\ t.out.sent[i].type = "Request"
        /\ t.out.sent[i].body = FindNode(0)
        /\ t.out.sent[i].contact.node_id = n
        /\ t.out.sent[i].id \notin DOMAIN active_requests
        /\ t.out.sent[i].id \in DOMAIN t.active_requests
        /\ t.active_requests[t.out.sent[i].id].request_body = FindNode(0)
        /\ t.active_requests[t.out.sent[i].id].contact.node_id = n

\* The Pong with enr_seq that answers a Ping to node n leads to t: the entry
\* of n, of one of the kinds, is Connected unless the quota downgrades it,
\* and a known record older than enr_seq is asked for again.
PongConnects(n, enr_seq, t, kinds) ==
    /\ EntryIn(t.kbuckets, n).kind \in kinds =>
          \/ EntryIn(t.kbuckets, n).status = "Connected"
          \/ QuotaDowngrades(n)
    /\ KnownEnr(n) # None /\ KnownEnr(n)[1].seq < enr_seq => RefreshSent(n, t)

\* C33: after the Pong to an active Ping to P, the Present or Pending entry
\* of P is Connected unless the IP quota downgrades it, and if the Pong's
\* enr_seq is greater than the seq of the record known for P, FindNode{0} to
\* P is registered and sent.
C33_PongConnectsAndRefreshes ==
    \A id \in ActivePings : \A enr_seq \in 1..MaxSeq :
        PongConnects(active_requests[id].contact.node_id, enr_seq,
                     handle_rpc_response(State, id, Pong(enr_seq, "sockA"), TRUE),
                     {"Present", "Pending"})

\* C33 for the nodes of the buckets: it holds of Present entries.
C33_PongConnectsPresent ==
    \A id \in ActivePings : \A enr_seq \in 1..MaxSeq :
        PongConnects(active_requests[id].contact.node_id, enr_seq,
                     handle_rpc_response(State, id, Pong(enr_seq, "sockA"), TRUE),
                     {"Present"})

-----------------------------------------------------------------------------
(* The probe of the node nominated for eviction *)

\* What the insertion of enr as Connected returns, into the bucket as a
\* lookup of its key leaves it.
InsertResult(enr) ==
    BucketInsert(TableEntry(kbuckets, enr.id).kb.buckets[log2_distance(LocalId, enr.id)],
                 enr, "Connected")

\* connection_updated(enr.id, Some(enr), Connected) gets Pending{disconnected}
\* from the insertion.
InsertReturnsPending(enr) ==
    /\ EntryIn(kbuckets, enr.id).kind = "Absent"
    /\ Admitted(enr.id, enr)
    /\ InsertResult(enr).result = "Pending"

\* The step that made enr the pending candidate, leading to t, has sent one
\* message, the Ping to the nominee n, registered under its id, and has
\* reported no insertion; the nominee is Connected after its Pong to that
\* Ping and Disconnected after the failure of that Ping.
NomineeProbed(enr, n, t) ==
    /\ EntryIn(t.kbuckets, enr.id).kind = "Pending"
    /\ Len(t.out.sent) = 1
    /\ PingsTo(t.out.sent, n) = {1}
    /\ t.out.sent[1].id = next_id
    /\ next_id \in DOMAIN t.active_requests
    /\ t.active_requests[next_id].request_body = Ping(local_enr.seq)
    /\ t.active_requests[next_id].contact.node_id = n
    /\ Insertions(t.out.events) = {}
    /\ EntryIn(handle_rpc_response(t, next_id, Pong(1, "sockA"), TRUE).kbuckets, n).status
           = "Connected"
    /\ EntryIn(rpc_failure(t, next_id).kbuckets, n).status = "Disconnected"

\* C34: when the insertion of a Connected candidate returns
\* Pending{disconnected: n}, the same step registers and sends a Ping to n
\* and reports no NodeInserted; the Pong to that Ping makes n Connected, its
\* failure leaves n Disconnected.
C34_PendingProbesNominee ==
    \A enr \in SessionEnrs :
        InsertReturnsPending(enr) =>
            NomineeProbed(enr, InsertResult(enr).disconnected[1],
                          connection_updated(Streaming, enr.id, Some(enr), "Connected"))

\* C34: a candidate is pending, its nominee is Disconnected and the Ping
\* that probes the nominee is the first message of the last step.
C34_Witness ==
    \E d \in Distances :
        /\ kbuckets.buckets[d].pending # << >>
        /\ ~kbuckets.buckets[d].pending[1].expired
        /\ out.sent # << >>
        /\ PingsTo(out.sent, kbuckets.buckets[d].pending[1].nominee) = {1}
        /\ out.sent[1].id \in DOMAIN active_requests
        /\ EntryIn(kbuckets, kbuckets.buckets[d].pending[1].nominee).status = "Disconnected"


\* The nodes of every bucket of the table kb are within the IP quota: no
\* record of a node would fail the check against the others.
WithinQuota(kb) ==
    \A d \in Distances : \A i \in 1..Len(kb.buckets[d].nodes) :
        TableCheck(kb, kb.buckets[d].nodes[i].enr.id, kb.buckets[d].nodes[i].enr)

\* C34 where the IP quota is off or the buckets, as the lookup of the
\* candidate leaves them, are within it.
C34_PendingProbesNomineeWithinQuota ==
    \A enr \in SessionEnrs :
        /\ InsertReturnsPending(enr)
        /\ config.ip_limit => WithinQuota(TableEntry(kbuckets, enr.id).kb)
        => NomineeProbed(enr, InsertResult(enr).disconnected[1],
                         connection_updated(Streaming, enr.id, Some(enr), "Connected"))

-----------------------------------------------------------------------------
(* A response of the wrong kind *)

\* What the callbacks have been sent.
Answers(cbs) ==
    [ kind \in DOMAIN cbs |->
        [ cb \in DOMAIN cbs[kind] |-> << cbs[kind][cb].value, cbs[kind][cb].sends >> ] ]

\* The bodies that do not answer the request body.
WrongBodies(request_body) ==
    { body \in SpecResponses : ~match_request(body, request_body) }

\* The state t has the table, the queries, the votes, the local record and
\* the accumulators of the present state, nothing has been sent to the
\* handler, the event stream or discovered, and no callback has been answered.
Dropped(t) ==
    /\ t.kbuckets = kbuckets
    /\ t.queries = queries
    /\ t.ip_votes = ip_votes
    /\ t.local_enr = local_enr
    /\ t.active_nodes_responses = active_nodes_responses
    /\ t.ban_list = ban_list
    /\ t.out = EmptyOut
    /\ Answers(t.callbacks) = Answers(callbacks)

\* C35: a response whose body is not of the kind of the request it answers
\* changes neither table, queries, votes, local record nor accumulators,
\* sends nothing and answers no callback.
C35_WrongKindIsDropped ==
    \A id \in DOMAIN active_requests :
        \A body \in WrongBodies(active_requests[id].request_body) :
            Dropped(handle_rpc_response(Streaming, id, body, TRUE))

\* C35: the request for a record a user made has been answered by a body of
\* the wrong kind: it is no longer active and its callback has gone without
\* an answer, while the table holds a node and a query is in the pool.
C35_Witness ==
    \E cb \in DOMAIN callbacks.enr :
        /\ callbacks.enr[cb].state = "dropped"
        /\ callbacks.enr[cb].sends = 0
        /\ \A id \in DOMAIN active_requests : active_requests[id].callback # Some(cb)
        /\ PresentIds(kbuckets) # {}
        /\ DOMAIN queries # {}

-----------------------------------------------------------------------------
(* Several FindNode requests to one peer *)

\* Another FindNode request to the peer of request id is outstanding.
SharesPeer(id) ==
    \E other \in DOMAIN active_requests \ {id} :
        /\ active_requests[other].request_body.kind = "FindNode"
        /\ active_requests[other].contact.node_id = active_requests[id].contact.node_id

\* C36: while several FindNode requests to one peer are outstanding, the
\* first fragment received in answer to request r is counted and kept for r
\* alone: with a total above 1 it leaves r waiting, with nothing handed to
\* discovered, and with a total of 1 discovered is handed exactly the
\* fragment's records at the requested distance.
C36_FragmentsKeptPerRequest ==
    [][\A id \in DOMAIN active_requests : \A body \in SpecResponses :
          LET request == active_requests[id]
              kept    == Conforming(request.contact.node_id, request.request_body.arg,
                                    body.nodes)
          IN  ( /\ NodesStep(id, body)
                /\ SharesPeer(id)
                /\ id \notin DOMAIN fragments )
              => IF body.total > 1
                 THEN /\ id \in DOMAIN active_requests'
                      /\ out'.discovered = << >>
                 ELSE /\ Len(out'.discovered) = 1
                      /\ out'.discovered[1].enrs = kept]_vars

-----------------------------------------------------------------------------
(* The life of a NODES accumulator *)

\* A FindNode request to node n is outstanding.
FindNodeOutstanding(requests, n) ==
    \E id \in DOMAIN requests :
        /\ requests[id].request_body.kind = "FindNode"
        /\ requests[id].contact.node_id = n

\* C37: an accumulator is held for a node only while a FindNode request to
\* the node is in active_requests, and its count is between 2 and 5.
C37_AccumulatorHasItsRequest ==
    \A n \in DOMAIN active_nodes_responses :
        /\ FindNodeOutstanding(active_requests, n)
        /\ active_nodes_responses[n].count \in 2..MaxNodesResponses

-----------------------------------------------------------------------------
(* A fragment of total 1 after fragments of a larger total *)

\* Request id has had fragments of a total above 1 that left records in the
\* accumulator of its node.
HasAccumulated(id) ==
    /\ id \in DOMAIN fragments
    /\ active_requests[id].request_body.kind = "FindNode"
    /\ Accumulated(active_nodes_responses, active_requests[id].contact.node_id) # << >>

\* The fragments of total 1.
LastFragments == { body \in SpecResponses : body.kind = "Nodes" /\ body.total = 1 }

\* C38: a fragment of total 1 in answer to a FindNode request whose earlier
\* fragments declared a total above 1 ends the exchange without the records
\* accumulated so far: discovered is called once, with the records of this
\* fragment that pass the distance filter, the accumulator of the node is
\* removed and the request leaves active_requests.
C38_TotalOneDiscardsAccumulated ==
    \A id \in DOMAIN active_requests : \A body \in LastFragments :
        HasAccumulated(id) =>
            LET request == active_requests[id]
                node_id == request.contact.node_id
                t       == handle_rpc_response(State, id, body, TRUE)
            IN  /\ Len(t.out.discovered) = 1
                /\ t.out.discovered[1].source = node_id
                /\ t.out.discovered[1].enrs
                     = RetainDistance(node_id, body.nodes, request.request_body.arg)
                /\ node_id \notin DOMAIN t.active_nodes_responses
                /\ id \notin DOMAIN t.active_requests

\* C38, witness: a request whose fragments have left records in the
\* accumulator, with a fragment of total 1 that carries a record.
C38_Witness ==
    \E id \in DOMAIN active_requests : \E body \in LastFragments :
        /\ HasAccumulated(id)
        /\ RetainDistance(active_requests[id].contact.node_id, body.nodes,
                          active_requests[id].request_body.arg) # << >>

-----------------------------------------------------------------------------
(* The table filter *)

\* The records the table holds, of the nodes and of the pending nodes.
RecordsOf(kb) ==
    { e.enr : e \in UNION { Range(kb.buckets[d].nodes) \cup Range(kb.buckets[d].pending) :
                            d \in Distances } }

\* The records config.table_filter rejects.
Rejected == { enr \in Enrs : ~table_filter(State, enr) }

\* An ENR the filter rejects leaves the table as it is, whichever way it
\* comes: add_enr, a session, a connection update, a discovery.
RejectedChangesNothing(enr) ==
    /\ add_enr(State, enr).kbuckets = kbuckets
    /\ inject_session_established(Streaming, enr).kbuckets = kbuckets
    /\ \A status \in {"Connected", "Disconnected"} :
          connection_updated(Streaming, enr.id, Some(enr), status).kbuckets = kbuckets
    /\ \A source \in sessions :
          discovered(Streaming, source, << enr >>, None).kbuckets = kbuckets

\* C39: every record the table holds satisfies config.table_filter, the
\* table being empty at the start and written by add_enr, a session, a
\* Pong and a discovery only; and an ENR the filter rejects leaves the table
\* unchanged.
C39_TableHoldsFilteredRecords ==
    /\ \A enr \in RecordsOf(kbuckets) : table_filter(State, enr)
    /\ \A enr \in Rejected : RejectedChangesNothing(enr)

\* C39, witness: the table holds the older record of a peer whose newest
\* record the filter rejects, and has asked the peer for its record.
C39_Witness ==
    \E enr \in Rejected :
        /\ enr.id \in PresentIds(kbuckets)
        /\ StoredSeqIn(kbuckets, enr.id) < enr.seq
        /\ RefreshRequests(enr.id) # {}

-----------------------------------------------------------------------------
(* The re-ping after a rewrite of the local ENR *)

\* The Ping requests among the messages sent.
PingsIn(sent) ==
    { i \in 1..Len(sent) : sent[i].type = "Request" /\ sent[i].body.kind = "Ping" }

\* The nodes the table holds as connected.
ConnectedIds(kb) ==
    { e.enr.id : e \in { x \in UNION { Range(kb.buckets[d].nodes) : d \in Distances } :
                          x.status = "Connected" } }

\* The handling of a Pong that rewrites the local ENR, leading to t, pings
\* the connected peers after the write: each of them once, and every Ping
\* it sends carries the local enr_seq the write has produced, which is the
\* old one plus 1.
RePingCarriesNewSeq(t) ==
    /\ t.local_enr.seq = local_enr.seq + 1
    /\ \A i \in PingsIn(t.out.sent) : t.out.sent[i].body = Ping(t.local_enr.seq)
    /\ \A n \in ConnectedIds(kbuckets) : Cardinality(PingsTo(t.out.sent, n)) = 1

\* C40: the handling of a Pong whose vote rewrites the socket of the local
\* ENR pings the connected peers with the new, incremented local enr_seq;
\* with a write of the local ENR that fails, the handling of the Pong pings
\* no connected peer and leaves the local ENR as it was.
C40_RePingAfterEnrWrite ==
    \A id \in ActivePings : \A body \in PongBodies(Sockets) :
        LET written == handle_rpc_response(State, id, body, TRUE)
            failed  == handle_rpc_response(State, id, body, FALSE)
        IN  /\ written.local_enr # local_enr => RePingCarriesNewSeq(written)
            /\ failed.local_enr = local_enr
            /\ \A n \in ConnectedIds(kbuckets) : PingsTo(failed.out.sent, n) = {}

\* C40, witness: the last step has rewritten the local ENR and pinged two
\* connected peers with its new sequence number.
C40_Witness ==
    /\ local_enr.seq > 1
    /\ Cardinality(PingsIn(out.sent)) = 2
    /\ \A i \in PingsIn(out.sent) : out.sent[i].body = Ping(local_enr.seq)

====
